---- MODULE Spec2Model ----
(***************************************************************************)
(* Account storage cache of telepathy-mission-control (McdStorage).        *)
(*                                                                         *)
(* The model follows src/src/mcd-debug.c from line 128 on (the body of     *)
(* mcd-storage.c): the plugin registry `stores`, the account cache         *)
(* `accounts` (attributes, parameters, escaped_parameters, storage), the   *)
(* plugin-facing write-backs, the keyfile codec, load, create, delete and  *)
(* commit.  Plugins are the environment: what they answer to a call is a   *)
(* nondeterministic input of the action that makes the call.               *)
(*                                                                         *)
(* Representation.                                                         *)
(*  - A C string is a sequence of one-character strings; NullText is the   *)
(*    NULL char pointer.                                                   *)
(*  - A GVariant is a record [t |-> signature, v |-> value]; NULL is the   *)
(*    NULL GVariant pointer.  A GValue is written the same way, its GType  *)
(*    named by the signature dbus_g_value_build_g_variant maps it to       *)
(*    (G_TYPE_STRING "s", G_TYPE_BOOLEAN "b", G_TYPE_INT "i",              *)
(*    G_TYPE_UINT "u").                                                    *)
(*  - A GHashTable is a function whose DOMAIN is the set of its keys.      *)
(*  - An account name "<manager>/<protocol>/<base><i>" is the pair         *)
(*    <<base, i>>; manager and protocol are fixed.                         *)
(***************************************************************************)
EXTENDS Integers, Sequences, FiniteSets, TLC

\* ------------------------------------------------------------------ bounds

\* largest counter suffix unique_name may have to try
MaxCounter == 1
\* most account records held by the cache at once
MaxAccounts == 2
\* most attribute/parameter entries held by the whole cache at once
MaxEntries == 2
\* most names one plugin reports from list()
MaxListed == 2
\* most plugin objects returned by mcp_list_objects(), registry specification
MaxObjects == 3
\* most account object paths registered on the bus at once
MaxDBusObjects == 1
\* most identify_account_async requests made
MaxRequests == 2
\* most method calls of the test plugin awaiting their answer at once
MaxInFlight == 2
\* method invocations on the Compat interface of one run
MaxOperations == 3
\* .chandler files in the directory
MaxFiles == 2
\* channel types listed by one file
MaxTypes == 2

\* tests/twisted/dbus-account-plugin.c: enum { UNCOMMITTED_CREATION,
\* UNCOMMITTED_DELETION } flags
UNCOMMITTED_CREATION == 0
UNCOMMITTED_DELETION == 1

\* ------------------------------------------------------------- null values

NullText == <<"NULL">>
NULL == [t |-> "null", v |-> 0]
NullName == <<"", -1>>
NoPlugin == "none"

Lookup(table, k) == IF k \in DOMAIN table THEN table[k] ELSE NULL
LookupText(table, k) == IF k \in DOMAIN table THEN table[k] ELSE NullText
Remove(table, k) == [x \in DOMAIN table \ {k} |-> table[x]]
Insert(table, k, val) == [x \in DOMAIN table \cup {k} |-> IF x = k THEN val ELSE table[x]]
EmptyTable == [x \in {} |-> NULL]

\* ------------------------------------------------------------------- codec

Digit == <<"0", "1", "2", "3", "4", "5", "6", "7", "8", "9">>
IsDigit(c) == \E d \in 1..10 : Digit[d] = c
DigitVal(c) == (CHOOSE d \in 1..10 : Digit[d] = c) - 1

RECURSIVE Decimal(_)
\* printf ("%u") of a natural number
Decimal(n) == IF n < 10 THEN <<Digit[n + 1]>>
              ELSE Decimal(n \div 10) \o <<Digit[(n % 10) + 1]>>


AllDigits(text) == Len(text) > 0 /\ \A i \in 1..Len(text) : IsDigit(text[i])

RECURSIVE DigitsValue(_)
DigitsValue(text) == IF text = <<>> THEN 0
                     ELSE 10 * DigitsValue(SubSeq(text, 1, Len(text) - 1))
                          + DigitVal(text[Len(text)])

RECURSIVE StripZeros(_)
StripZeros(text) == IF Len(text) > 1 /\ text[1] = "0" THEN StripZeros(Tail(text))
                    ELSE text

RECURSIVE DigitsLessEq(_, _)
\* numeric <= on two digit strings of the same length
DigitsLessEq(x, y) == IF x = <<>> THEN TRUE
                      ELSE IF DigitVal(x[1]) < DigitVal(y[1]) THEN TRUE
                      ELSE IF DigitVal(x[1]) > DigitVal(y[1]) THEN FALSE
                      ELSE DigitsLessEq(Tail(x), Tail(y))

\* the digit string x denotes a number <= the number the digit string y denotes
NumLessEq(x, y) == LET a == StripZeros(x)
                       b == StripZeros(y)
                   IN  Len(a) < Len(b) \/ (Len(a) = Len(b) /\ DigitsLessEq(a, b))

G_MAXUINT32_TEXT == <<"4", "2", "9", "4", "9", "6", "7", "2", "9", "5">>

RECURSIVE EscapeFrom(_, _)
\* g_key_file_parse_string_as_value without list separator: leading spaces
\* become "\s", every backslash is doubled
EscapeFrom(text, leading) ==
    IF text = <<>> THEN <<>>
    ELSE IF leading /\ text[1] = " " THEN <<"\\", "s">> \o EscapeFrom(Tail(text), TRUE)
    ELSE IF text[1] = "\\" THEN <<"\\", "\\">> \o EscapeFrom(Tail(text), FALSE)
    ELSE <<text[1]>> \o EscapeFrom(Tail(text), FALSE)

g_key_file_set_string(text) == EscapeFrom(text, TRUE)

RECURSIVE g_key_file_get_string(_)
\* g_key_file_parse_value_as_string: NullText (with an error) on a trailing
\* backslash or an unknown escape sequence
g_key_file_get_string(value) ==
    IF value = <<>> THEN <<>>
    ELSE IF value[1] # "\\"
         THEN LET rest == g_key_file_get_string(Tail(value))
              IN  IF rest = NullText THEN NullText ELSE <<value[1]>> \o rest
    ELSE IF Len(value) = 1 THEN NullText
    ELSE IF value[2] \notin {"s", "\\"} THEN NullText
    ELSE LET rest == g_key_file_get_string(SubSeq(value, 3, Len(value)))
         IN  IF rest = NullText THEN NullText
             ELSE <<(IF value[2] = "s" THEN " " ELSE "\\")>> \o rest

\* ---- integers of fixed width: limbs of 16 bits, most significant first;
\* ---- 2 limbs for 32 bits, 4 limbs for 64 bits; signed ones in two's complement

LimbBase == 65536

IsZero(limbs) == \A k \in 1..Len(limbs) : limbs[k] = 0
ZeroLimbs(n) == [k \in 1..n |-> 0]
MaxLimbs(n) == [k \in 1..n |-> LimbBase - 1]
\* the most negative number: only the sign bit set
MinLimbs(n) == [k \in 1..n |-> IF k = 1 THEN LimbBase \div 2 ELSE 0]
\* the largest signed number
MaxSignedLimbs(n) == [k \in 1..n |-> IF k = 1 THEN (LimbBase \div 2) - 1 ELSE LimbBase - 1]
IsNegative(limbs) == limbs[1] >= LimbBase \div 2

RECURSIVE DivSmall(_, _, _)
\* <<quotient, remainder>> of rem * LimbBase^Len(limbs) + limbs by d
DivSmall(limbs, d, rem) ==
    IF limbs = <<>> THEN <<<<>>, rem>>
    ELSE LET cur == rem * LimbBase + limbs[1]
             rest == DivSmall(Tail(limbs), d, cur % d)
         IN  <<(<<cur \div d>>) \o rest[1], rest[2]>>

RECURSIVE MulAdd(_, _, _)
\* <<limbs * m + a modulo LimbBase^Len(limbs), carry out>>
MulAdd(limbs, m, a) ==
    IF limbs = <<>> THEN <<<<>>, a>>
    ELSE LET n == Len(limbs)
             cur == limbs[n] * m + a
             rest == MulAdd(SubSeq(limbs, 1, n - 1), m, cur \div LimbBase)
         IN  <<rest[1] \o <<cur % LimbBase>>, rest[2]>>

\* two's complement negation
Negate(limbs) == MulAdd([k \in 1..Len(limbs) |-> (LimbBase - 1) - limbs[k]], 1, 1)[1]

\* unsigned <= on limb sequences of the same length
RECURSIVE LimbsLessEq(_, _)
LimbsLessEq(x, y) == IF x = <<>> THEN TRUE
                     ELSE IF x[1] < y[1] THEN TRUE
                     ELSE IF x[1] > y[1] THEN FALSE
                     ELSE LimbsLessEq(Tail(x), Tail(y))

RECURSIVE UnsignedDigits(_)
UnsignedDigits(limbs) ==
    IF IsZero(limbs) THEN <<>>
    ELSE LET dm == DivSmall(limbs, 10, 0)
         IN  UnsignedDigits(dm[1]) \o <<Digit[dm[2] + 1]>>

\* printf ("%u") and ("%" G_GUINT64_FORMAT) of an unsigned integer
PrintUnsigned(limbs) == IF IsZero(limbs) THEN <<"0">> ELSE UnsignedDigits(limbs)

\* printf ("%d") and ("%" G_GINT64_FORMAT) of a signed integer
PrintSigned(limbs) ==
    IF IsNegative(limbs) THEN <<"-">> \o PrintUnsigned(Negate(limbs))
    ELSE PrintUnsigned(limbs)

RECURSIVE ParseDigits(_, _)
\* the value of a digit string in n limbs and whether it overflowed them
ParseDigits(digits, n) ==
    IF digits = <<>> THEN [value |-> ZeroLimbs(n), overflow |-> FALSE]
    ELSE LET front == ParseDigits(SubSeq(digits, 1, Len(digits) - 1), n)
             ma == MulAdd(front.value, 10, DigitVal(digits[Len(digits)]))
         IN  [value |-> ma[1], overflow |-> front.overflow \/ ma[2] # 0]

RECURSIVE SkipSpaces(_)
SkipSpaces(text) == IF text # <<>> /\ text[1] = " " THEN SkipSpaces(Tail(text)) ELSE text

RECURSIVE DigitPrefix(_)
DigitPrefix(text) == IF text # <<>> /\ IsDigit(text[1])
                     THEN <<text[1]>> \o DigitPrefix(Tail(text)) ELSE <<>>

\* what strtol, g_ascii_strtoll and g_ascii_strtoull see in a text: white
\* space, a sign, digits; end is what follows the digits, the whole text
\* when there is no digit
ScanResult(text, neg, t2, digits) ==
    [neg |-> neg, digits |-> digits,
     end |-> IF digits = <<>> THEN text ELSE SubSeq(t2, Len(digits) + 1, Len(t2))]
ScanDigits(text, neg, t2) == ScanResult(text, neg, t2, DigitPrefix(t2))
ScanSign(text, t1) ==
    ScanDigits(text, t1 # <<>> /\ t1[1] = "-",
               IF t1 # <<>> /\ t1[1] \in {"+", "-"} THEN Tail(t1) ELSE t1)
Scan(text) == ScanSign(text, SkipSpaces(text))

\* g_ascii_strtoull: the value (G_MAXUINT64 on overflow, negated after a
\* minus sign), the rest of the text and whether errno is ERANGE
StrtoullResult(sc, p) ==
    [value |-> IF p.overflow THEN MaxLimbs(4)
               ELSE IF sc.neg THEN Negate(p.value) ELSE p.value,
     end |-> sc.end, erange |-> p.overflow]
StrtoullOf(sc) == StrtoullResult(sc, ParseDigits(sc.digits, 4))
g_ascii_strtoull(text) == StrtoullOf(Scan(text))

\* g_ascii_strtoll and strtol (long of 64 bits): saturating
StrtollResult(sc, p, over) ==
    [value |-> IF over THEN (IF sc.neg THEN MinLimbs(4) ELSE MaxSignedLimbs(4))
               ELSE IF sc.neg THEN Negate(p.value) ELSE p.value,
     end |-> sc.end, erange |-> over]
StrtollRange(sc, p) ==
    StrtollResult(sc, p,
                  p.overflow
                  \/ (IF sc.neg THEN ~LimbsLessEq(p.value, MinLimbs(4))
                                ELSE ~LimbsLessEq(p.value, MaxSignedLimbs(4))))
StrtollOf(sc) == StrtollRange(sc, ParseDigits(sc.digits, 4))
g_ascii_strtoll(text) == StrtollOf(Scan(text))

\* a failed read of an integer of n limbs
NoLimbs == <<-1>>

\* g_key_file_get_uint64 and g_key_file_get_int64: no check of errno
WholeValue(value, r) == IF value = <<>> \/ r.end # <<>> THEN NoLimbs ELSE r.value
g_key_file_get_uint64(value) == WholeValue(value, g_ascii_strtoull(value))
g_key_file_get_int64(value) == WholeValue(value, g_ascii_strtoll(value))

\* sign extension of 32 bits to 64 bits, and whether 64 bits fit in 32
SignExtend(limbs) ==
    (IF IsNegative(limbs) THEN <<LimbBase - 1, LimbBase - 1>> ELSE <<0, 0>>) \o limbs
FitsInt(limbs) == SignExtend(SubSeq(limbs, 3, 4)) = limbs

\* g_key_file_get_integer: strtol, then the value must fit a gint
WholeInt(value, r) ==
    IF value = <<>> \/ r.end # <<>> \/ r.erange \/ ~FitsInt(r.value) THEN NoLimbs
    ELSE SubSeq(r.value, 3, 4)
g_key_file_get_integer(value) == WholeInt(value, g_ascii_strtoll(value))

\* ---- strings and lists of strings

RECURSIVE EscapeElementFrom(_, _)
\* g_key_file_parse_string_as_value with escape_separator: as for a string,
\* and every list separator gets a backslash
EscapeElementFrom(text, leading) ==
    IF text = <<>> THEN <<>>
    ELSE IF leading /\ text[1] = " "
         THEN <<"\\", "s">> \o EscapeElementFrom(Tail(text), TRUE)
    ELSE IF text[1] = "\\" THEN <<"\\", "\\">> \o EscapeElementFrom(Tail(text), FALSE)
    ELSE IF text[1] = ";" THEN <<"\\", ";">> \o EscapeElementFrom(Tail(text), FALSE)
    ELSE <<text[1]>> \o EscapeElementFrom(Tail(text), FALSE)

\* a string list written with the escaping of a single string, which leaves
\* the separator inside an element as it is
RECURSIVE g_key_file_set_string_list_as_strings(_)
g_key_file_set_string_list_as_strings(list) ==
    IF list = <<>> THEN <<>>
    ELSE EscapeFrom(list[1], TRUE) \o <<";">>
         \o g_key_file_set_string_list_as_strings(Tail(list))

RECURSIVE g_key_file_set_string_list(_)
\* every element escaped and followed by the separator
g_key_file_set_string_list(list) ==
    IF list = <<>> THEN <<>>
    ELSE EscapeElementFrom(list[1], TRUE) \o <<";">> \o g_key_file_set_string_list(Tail(list))

\* a failed read of a list
NullList == <<NullText>>

RECURSIVE ListFrom(_, _, _)
\* g_key_file_parse_value_as_string with pieces: cur is the piece being
\* read, acc the pieces read; a last piece without separator counts when
\* it is not empty
ListFrom(value, cur, acc) ==
    IF value = <<>> THEN (IF cur # <<>> THEN Append(acc, cur) ELSE acc)
    ELSE IF value[1] = "\\"
    THEN IF Len(value) = 1 THEN NullList
         ELSE IF value[2] \notin {"s", "\\", ";"} THEN NullList
         ELSE ListFrom(SubSeq(value, 3, Len(value)),
                       Append(cur, IF value[2] = "s" THEN " " ELSE value[2]), acc)
    ELSE IF value[1] = ";" THEN ListFrom(Tail(value), <<>>, Append(acc, cur))
    ELSE ListFrom(Tail(value), Append(cur, value[1]), acc)

g_key_file_get_string_list(value) == ListFrom(value, <<>>, <<>>)

\* characters of an element of an object path
PathChars == {"a", "b", "0", "5", "_"}

RECURSIVE ValidPathFrom(_, _)
\* after the leading slash: elements of [A-Za-z0-9_], none empty
ValidPathFrom(text, inElement) ==
    IF text = <<>> THEN inElement
    ELSE IF text[1] = "/" THEN inElement /\ ValidPathFrom(Tail(text), FALSE)
    ELSE text[1] \in PathChars /\ ValidPathFrom(Tail(text), TRUE)

\* tp_dbus_check_valid_object_path and g_variant_is_object_path
g_variant_is_object_path(text) ==
    /\ text # <<>>
    /\ text[1] = "/"
    /\ (Len(text) = 1 \/ ValidPathFrom(Tail(text), FALSE))

\* ---- the codec

\* the text mcd_keyfile_set_variant leaves in the keyfile for a non-NULL
\* variant; NullText when it stores nothing (unexpected type)
mcd_keyfile_set_variant(variant) ==
    CASE variant.t \in {"s", "o"} -> g_key_file_set_string(variant.v)
      [] variant.t = "b" -> IF variant.v THEN <<"t", "r", "u", "e">>
                                         ELSE <<"f", "a", "l", "s", "e">>
      [] variant.t \in {"u", "t"} -> PrintUnsigned(variant.v)
      [] variant.t \in {"i", "x"} -> PrintSigned(variant.v)
      [] variant.t = "y" -> Decimal(variant.v)
      [] variant.t \in {"as", "ao"} -> g_key_file_set_string_list(variant.v)
      [] variant.t = "(uss)" ->
           g_key_file_set_string_list(<<PrintUnsigned(variant.v[1]), variant.v[2],
                                        variant.v[3]>>)
      [] OTHER -> NullText

mcd_keyfile_escape_variant(variant) == mcd_keyfile_set_variant(variant)

\* dbus_g_value_build_g_variant is the identity on the modelled types
mcd_keyfile_escape_value(value) == mcd_keyfile_escape_variant(value)

\* mcd_keyfile_get_variant: the variant of signature type read from the text,
\* NULL (with an error) when the text is not valid for the type
\* the GVariant of each branch of mcd_keyfile_get_variant, NULL with the
\* error set
TextVariant(type, text) == IF text = NullText THEN NULL ELSE [t |-> type, v |-> text]
LimbsVariant(type, limbs) == IF limbs = NoLimbs THEN NULL ELSE [t |-> type, v |-> limbs]
UInt32Variant(v_uint) ==
    IF v_uint = NoLimbs THEN NULL
    ELSE IF SubSeq(v_uint, 1, 2) # <<0, 0>> THEN NULL
    ELSE [t |-> "u", v |-> SubSeq(v_uint, 3, 4)]
ByteVariant(v_int) ==
    IF v_int = NoLimbs THEN NULL
    ELSE IF v_int[1] # 0 \/ v_int[2] > 255 THEN NULL
    ELSE [t |-> "y", v |-> v_int[2]]
ListVariant(v) == IF v = NullList THEN NULL ELSE [t |-> "as", v |-> v]
PathVariant(v_string) ==
    IF v_string = NullText THEN NULL
    ELSE IF ~g_variant_is_object_path(v_string) THEN NULL
    ELSE [t |-> "o", v |-> v_string]
PathListVariant(v) ==
    IF v = NullList THEN NULL
    ELSE IF \E k \in 1..Len(v) : ~g_variant_is_object_path(v[k]) THEN NULL
    ELSE [t |-> "ao", v |-> v]
PresenceOf(v, r) ==
    IF r.erange \/ r.end # <<>> \/ SubSeq(r.value, 1, 2) # <<0, 0>> THEN NULL
    ELSE [t |-> "(uss)", v |-> <<SubSeq(r.value, 3, 4), v[2], v[3]>>]
PresenceVariant(v) ==
    IF v = NullList THEN NULL
    ELSE IF Len(v) # 3 THEN NULL
    ELSE PresenceOf(v, g_ascii_strtoull(v[1]))

mcd_keyfile_get_variant(escaped, type) ==
    CASE type = "s" -> TextVariant("s", g_key_file_get_string(escaped))
      [] type = "b" ->
           IF escaped \in {<<"t", "r", "u", "e">>, <<"1">>} THEN [t |-> "b", v |-> TRUE]
           ELSE IF escaped \in {<<"f", "a", "l", "s", "e">>, <<"0">>} THEN [t |-> "b", v |-> FALSE]
           ELSE NULL
      [] type = "i" -> LimbsVariant("i", g_key_file_get_integer(escaped))
      [] type = "x" -> LimbsVariant("x", g_key_file_get_int64(escaped))
      [] type = "u" -> UInt32Variant(g_key_file_get_uint64(escaped))
      [] type = "y" -> ByteVariant(g_key_file_get_integer(escaped))
      [] type = "t" -> LimbsVariant("t", g_key_file_get_uint64(escaped))
      [] type = "as" -> ListVariant(g_key_file_get_string_list(escaped))
      [] type = "o" -> PathVariant(g_key_file_get_string(escaped))
      [] type = "ao" -> PathListVariant(g_key_file_get_string_list(escaped))
      [] type = "(uss)" -> PresenceVariant(g_key_file_get_string_list(escaped))
      [] OTHER -> NULL

\* mcd_keyfile_unescape_value / mcd_keyfile_get_value into a GValue of the
\* given type: NULL stands for FALSE with the error set
mcd_keyfile_unescape_value(escaped, type) == mcd_keyfile_get_variant(escaped, type)

\* ------------------------------------------------------------------ schema

\* known_attributes, by the name of the macro that holds the attribute name
known_attributes == <<
    <<"(uss)", "MC_ACCOUNTS_KEY_AUTOMATIC_PRESENCE">>,
    <<"ao", "MC_ACCOUNTS_KEY_SUPERSEDES">>,
    <<"as", "MC_ACCOUNTS_KEY_URI_SCHEMES">>,
    <<"b", "MC_ACCOUNTS_KEY_ALWAYS_DISPATCH">>,
    <<"b", "MC_ACCOUNTS_KEY_CONNECT_AUTOMATICALLY">>,
    <<"b", "MC_ACCOUNTS_KEY_ENABLED">>,
    <<"b", "MC_ACCOUNTS_KEY_HAS_BEEN_ONLINE">>,
    <<"s", "MC_ACCOUNTS_KEY_AUTO_PRESENCE_MESSAGE">>,
    <<"s", "MC_ACCOUNTS_KEY_AUTO_PRESENCE_STATUS">>,
    <<"s", "MC_ACCOUNTS_KEY_AVATAR_MIME">>,
    <<"s", "MC_ACCOUNTS_KEY_AVATAR_TOKEN">>,
    <<"s", "MC_ACCOUNTS_KEY_DISPLAY_NAME">>,
    <<"s", "MC_ACCOUNTS_KEY_ICON">>,
    <<"s", "MC_ACCOUNTS_KEY_MANAGER">>,
    <<"s", "MC_ACCOUNTS_KEY_NICKNAME">>,
    <<"s", "MC_ACCOUNTS_KEY_NORMALIZED_NAME">>,
    <<"s", "MC_ACCOUNTS_KEY_PROTOCOL">>,
    <<"s", "MC_ACCOUNTS_KEY_SERVICE">>,
    <<"u", "MC_ACCOUNTS_KEY_AUTO_PRESENCE_TYPE">> >>

\* the signature of the attribute, "" for NULL (unknown attribute)
mcd_storage_get_attribute_type(attribute) ==
    IF \E i \in DOMAIN known_attributes : known_attributes[i][2] = attribute
    THEN known_attributes[CHOOSE i \in DOMAIN known_attributes :
                             known_attributes[i][2] = attribute
                             /\ \A j \in 1..(i - 1) : known_attributes[j][2] # attribute][1]
    ELSE ""

\* the GType the value is initialised to, "" when the function returns FALSE
mcd_storage_init_value_for_attribute(attribute) ==
    LET s == mcd_storage_get_attribute_type(attribute)
    IN  CASE s = "" -> ""
          [] s = "s" -> "s"
          [] s = "b" -> "b"
          [] s = "u" -> "i"
          [] s = "ao" -> "ao"
          [] s = "as" -> "as"
          [] s = "(uss)" -> "(uss)"
          [] OTHER -> ""

\* ----------------------------------------------------------------- plugins

\* the compiled-in default storage: priority MCP_ACCOUNT_STORAGE_PLUGIN_PRIO_DEFAULT
DefaultPlugin == [name |-> "default", priority |-> 0, provider |-> "default-provider"]
\* tests/twisted/dbus-account-plugin.c: MCP_ACCOUNT_STORAGE_PLUGIN_PRIO_NORMAL + 100
TestDBusAccountPlugin == [name |-> "TestDBusAccount", priority |-> 200, provider |-> ""]
\* a further plugin object of normal priority
KeyfilePlugin == [name |-> "diverted-keyfile", priority |-> 100, provider |-> ""]
\* a plugin that names its accounts itself
ForeignPlugin == [name |-> "foreign", priority |-> 100, provider |-> "foreign-provider"]

mcp_account_storage_priority(plugin) == plugin.priority
mcp_account_storage_name(plugin) == plugin.name
mcp_account_storage_provider(plugin) == plugin.provider

\* comparison sorting in ascending order of priority
account_storage_cmp_ascending(a, b) ==
    LET pa == mcp_account_storage_priority(a)
        pb == mcp_account_storage_priority(b)
    IN  IF pa < pb THEN -1 ELSE IF pa > pb THEN 1 ELSE 0

\* sort in descending order of priority
account_storage_cmp(a, b) ==
    LET pa == mcp_account_storage_priority(a)
        pb == mcp_account_storage_priority(b)
    IN  IF pa > pb THEN -1 ELSE IF pa < pb THEN 1 ELSE 0

\* insertion after the elements that compare equal
g_list_insert_sorted_stable(list, data) ==
    LET before == {i \in 1..Len(list) : account_storage_cmp(data, list[i]) < 0}
        pos == IF before = {} THEN Len(list) + 1
               ELSE CHOOSE i \in before : \A j \in before : i <= j
    IN  SubSeq(list, 1, pos - 1) \o <<data>> \o SubSeq(list, pos, Len(list))

\* g_list_insert_sorted: the new element goes before the first element that
\* does not compare smaller than it, at the end when there is none
g_list_insert_sorted(list, data) ==
    LET before == {i \in 1..Len(list) : account_storage_cmp(data, list[i]) <= 0}
        pos == IF before = {} THEN Len(list) + 1
               ELSE CHOOSE i \in before : \A j \in before : i <= j
    IN  SubSeq(list, 1, pos - 1) \o <<data>> \o SubSeq(list, pos, Len(list))

\* add_storage_plugin that keeps plugins of equal priority in insertion order
add_storage_plugin_stable(list, plugin) == g_list_insert_sorted_stable(list, plugin)

add_storage_plugin(list, plugin) == g_list_insert_sorted(list, plugin)

\* ------------------------------------------------------------------ inputs

sA == [t |-> "s", v |-> <<"a">>]
s5 == [t |-> "s", v |-> <<"5">>]
u5 == [t |-> "u", v |-> <<0, 5>>]
bT == [t |-> "b", v |-> TRUE]
\* a byte array, a type mcd_keyfile_set_variant has no text for
ayB == [t |-> "ay", v |-> <<1>>]

\* GValues callers and plugins pass
Values == {sA, s5, u5, bT}
\* escaped texts plugins pass to set_value
EscapedTexts == {<<"a">>, <<"5">>}

AttributeNames == {"MC_ACCOUNTS_KEY_DISPLAY_NAME", "MC_ACCOUNTS_KEY_ENABLED"}
ParameterNames == {"account"}
\* values of the attribute's declared type
AttributeValues(attribute) ==
    {val \in Values : val.t = mcd_storage_init_value_for_attribute(attribute)}
ParameterValues == {sA, u5, ayB}

Names == {<<"x", i>> : i \in 0..MaxCounter}
Identifications == {"x"}

\* flat keys: <<"param-", name>> is "param-" followed by name
NoKey == <<"", "">>
ParamKey(parameter) == <<"param-", parameter>>
AttrKey(attribute) == <<"", attribute>>
\* a test of the prefix that finds it on no key
g_str_has_prefix_never(key) == FALSE
g_str_has_prefix_param(key) == key[1] = "param-"

\* ------------------------------------------------------------------- state

VARIABLES
    objects,        \* mcp_list_objects(): the plugin objects, in loader order
    stores,         \* static GList *stores
    plugins_cached, \* sort_and_cache_plugins: static gboolean plugins_cached
    regPos,         \* sort_and_cache_plugins: position of p in the object list
    phase,          \* "start", "registering", "load", "ready"
    loadAt,         \* mcd_storage_load: position of store in stores, 0 = NULL
    accounts,       \* self->accounts: name -> McdStorageAccount
    dbusObjects,    \* account names whose object path is registered on the bus
    usedNames,      \* history: every name that ever had a record
    last,           \* history: the last operation, its result and plugin calls
    tasks           \* the GTasks of identify_account_async, by request

\* tests/twisted/dbus-account-plugin.c: the TestDBusAccountPlugin object
VARIABLES
    plugin_active,          \* self->active
    listed,          \* history: test_dbus_account_plugin_list was called
    plugin_accounts, \* self->accounts: name -> Account
    in_flight,       \* the method calls awaiting their answer, oldest first
    creating,        \* history: names create made, CreateAccount not yet answered
    plugin_last      \* history: the last call or callback and its result

storageVars == <<objects, stores, plugins_cached, regPos, phase, loadAt, accounts,
                 dbusObjects, usedNames, last, tasks>>
pluginVars == <<plugin_active, listed, plugin_accounts, in_flight, creating, plugin_last>>

\* libmcclient mc-account.c: the McAccount proxy
VARIABLES
    proxy_props,     \* account->priv->props
    proxy_last       \* history: the last callback and the signals it emitted

proxyVars == <<proxy_props, proxy_last>>

\* mcd-account-compat.c: the Compat interface of an account
VARIABLES
    last_operation_id,   \* static guint last_operation_id, as two limbs
    invocations,         \* history: each method invocation and its replies
    compat_crashed       \* the process was ended by a bad access

compatVars == <<last_operation_id, invocations, compat_crashed>>

\* mcd-chan-handler.c: the table of channel handlers
VARIABLES
    handlers,        \* the GHashTable: channel type -> McdChannelHandler
    strings,         \* heap: each string read from a file -> times g_free'd
    files,           \* history: the ChannelType list of each file read
    chandler_phase   \* "reading", "returned", "destroyed" or "crashed"

handlerVars == <<handlers, strings, files, chandler_phase>>
restVars == <<proxyVars, compatVars, handlerVars>>

vars == <<storageVars, pluginVars, restVars>>

\* the other objects before anything happened to them
RestIdle ==
    /\ proxy_props = [allocated |-> FALSE, display_name |-> NullText,
                      connection_status |-> 0, connection_status_reason |-> 0,
                      emit_changed |-> FALSE, emit_connection_status_changed |-> FALSE]
    /\ proxy_last = [op |-> "none", carried |-> {}, signals |-> <<>>]
    /\ last_operation_id = <<0, 1>>
    /\ invocations = <<>>
    /\ compat_crashed = FALSE
    /\ handlers = [t \in {} |-> 0]
    /\ strings = [s \in {} |-> 0]
    /\ files = <<>>
    /\ chandler_phase = "reading"

\* the plugin before its service appeared
PluginIdle ==
    /\ plugin_active = FALSE
    /\ listed = FALSE
    /\ plugin_accounts = [n \in {} |-> 0]
    /\ in_flight = <<>>
    /\ creating = {}
    /\ plugin_last = [op |-> "none", account |-> NullName, key |-> NoKey, ret |-> FALSE,
                      name |-> NullName, calls |-> <<>>, ok |-> FALSE]

\* a call made to a plugin (or a load event); ret is the plugin's answer
Call(plugin, fn, account, key, ret) ==
    [plugin |-> plugin.name, fn |-> fn, account |-> account, key |-> key, ret |-> ret]

NoOp == [op |-> "none", account |-> NullName, key |-> NoKey, value |-> NULL,
         ret |-> FALSE, name |-> NullName, calls |-> <<>>, held |-> FALSE,
         type |-> "", error |-> "", attributes |-> {}, accounts |-> {},
         text |-> NullText, decoded |-> NULL, keys |-> {}]

\* ------------------------------------------------------------ cache records

mcd_storage_account_new(storage) ==
    [attributes |-> EmptyTable, parameters |-> EmptyTable,
     escaped_parameters |-> EmptyTable, storage |-> storage,
     refs |-> [x \in {} |-> 0]]

\* the reference count of the GVariant cached in a table ("a" for attributes,
\* "p" for parameters) under a name; no entry when no GVariant is cached
SetRefs(accts, account, table, name, count) ==
    [accts EXCEPT ![account].refs =
        IF count = 0 THEN Remove(@, <<table, name>>)
        ELSE Insert(@, <<table, name>>, count)]

lookup_account(accts, account) == account \in DOMAIN accts

\* number of entries of all three tables of all records
CacheSize(accts) ==
    Cardinality({e \in (DOMAIN accts) \X {"a", "p", "e"} \X (AttributeNames \cup ParameterNames) :
        \/ e[2] = "a" /\ e[3] \in DOMAIN accts[e[1]].attributes
        \/ e[2] = "p" /\ e[3] \in DOMAIN accts[e[1]].parameters
        \/ e[2] = "e" /\ e[3] \in DOMAIN accts[e[1]].escaped_parameters})

WithinBounds(accts) ==
    /\ Cardinality(DOMAIN accts) <= MaxAccounts
    /\ CacheSize(accts) <= MaxEntries

\* ------------------------------------------------- plugin-facing write-backs

mcpa_set_attribute(accts, account, attribute, value) ==
    IF ~lookup_account(accts, account) THEN accts
    ELSE LET sa == accts[account]
         IN  IF value # NULL
             THEN SetRefs([accts EXCEPT ![account].attributes =
                                      Insert(sa.attributes, attribute, value)],
                          account, "a", attribute, 1)
             ELSE SetRefs([accts EXCEPT ![account].attributes =
                                      Remove(sa.attributes, attribute)],
                          account, "a", attribute, 0)

mcpa_set_parameter(accts, account, parameter, value) ==
    IF ~lookup_account(accts, account) THEN accts
    ELSE LET sa == accts[account]
             params == Remove(sa.parameters, parameter)
             escaped == Remove(sa.escaped_parameters, parameter)
         IN  SetRefs([accts EXCEPT ![account].parameters =
                                      IF value # NULL THEN Insert(params, parameter, value)
                                      ELSE params,
                                  ![account].escaped_parameters = escaped],
                     account, "p", parameter, IF value # NULL THEN 1 ELSE 0)

\* set_value that stores the escaped text of a parameter without dropping the
\* typed value cached under the same name
set_value_keeping_typed(accts, account, key, value) ==
    IF ~lookup_account(accts, account) THEN accts
    ELSE LET sa == accts[account]
         IN  IF g_str_has_prefix_param(key)
             THEN [accts EXCEPT ![account].escaped_parameters =
                                    IF value # NullText
                                    THEN Insert(sa.escaped_parameters, key[2], value)
                                    ELSE Remove(sa.escaped_parameters, key[2])]
             ELSE IF value # NullText
                  THEN LET init == mcd_storage_init_value_for_attribute(key[2])
                           type == IF init = "" THEN "s" ELSE init
                           tmp == mcd_keyfile_unescape_value(value, type)
                       IN  IF tmp # NULL
                           THEN SetRefs([accts EXCEPT ![account].attributes =
                                                    Insert(sa.attributes, key[2], tmp)],
                                        account, "a", key[2], 1)
                           ELSE SetRefs([accts EXCEPT ![account].attributes =
                                                    Remove(sa.attributes, key[2])],
                                        account, "a", key[2], 0)
                  ELSE SetRefs([accts EXCEPT ![account].attributes =
                                           Remove(sa.attributes, key[2])],
                               account, "a", key[2], 0)

set_value(accts, account, key, value) ==
    IF ~lookup_account(accts, account) THEN accts
    ELSE LET sa == accts[account]
         IN  IF g_str_has_prefix_param(key)
             THEN LET params == Remove(sa.parameters, key[2])
                      escaped == Remove(sa.escaped_parameters, key[2])
                  IN  SetRefs([accts EXCEPT ![account].parameters = params,
                                           ![account].escaped_parameters =
                                               IF value # NullText
                                               THEN Insert(escaped, key[2], value)
                                               ELSE escaped],
                              account, "p", key[2], 0)
             ELSE IF value # NullText
                  THEN LET init == mcd_storage_init_value_for_attribute(key[2])
                           type == IF init = "" THEN "s" ELSE init
                           tmp == mcd_keyfile_unescape_value(value, type)
                       IN  IF tmp # NULL
                           THEN SetRefs([accts EXCEPT ![account].attributes =
                                                    Insert(sa.attributes, key[2], tmp)],
                                        account, "a", key[2], 1)
                           ELSE SetRefs([accts EXCEPT ![account].attributes =
                                                    Remove(sa.attributes, key[2])],
                                        account, "a", key[2], 0)
                  ELSE SetRefs([accts EXCEPT ![account].attributes =
                                           Remove(sa.attributes, key[2])],
                               account, "a", key[2], 0)

\* g_variant_unref of the GVariant cached in a table under a name: at
\* count 0 the GVariant is freed and the table is left with its address
g_variant_unref(accts, account, table, name) ==
    [accts EXCEPT ![account].refs = Insert(@, <<table, name>>, @[<<table, name>>] - 1)]

\* get_value: the text handed to the plugin (NullText for NULL) and the cache
\* after the call
get_value(accts, account, key) ==
    IF ~lookup_account(accts, account) THEN [ret |-> NullText, accts |-> accts]
    ELSE LET sa == accts[account]
         IN  IF g_str_has_prefix_param(key)
             THEN LET variant == Lookup(sa.parameters, key[2])
                  IN  IF variant # NULL
                      THEN [ret |-> mcd_keyfile_escape_variant(variant),
                            accts |-> g_variant_unref(accts, account, "p", key[2])]
                      ELSE [ret |-> LookupText(sa.escaped_parameters, key[2]),
                            accts |-> accts]
             ELSE LET variant == Lookup(sa.attributes, key[2])
                  IN  IF variant # NULL
                      THEN [ret |-> mcd_keyfile_escape_variant(variant),
                            accts |-> g_variant_unref(accts, account, "a", key[2])]
                      ELSE [ret |-> NullText, accts |-> accts]

\* list_keys: the flat keys handed to the plugin (the order is that of the
\* hash tables)
list_keys(accts, account) ==
    IF ~lookup_account(accts, account) THEN {}
    ELSE {AttrKey(k) : k \in DOMAIN accts[account].attributes}
         \cup {ParamKey(k) : k \in DOMAIN accts[account].parameters}

\* the cached GVariants that were freed
Freed(accts) ==
    {e \in (DOMAIN accts) \X {"a", "p"} \X (AttributeNames \cup ParameterNames) :
        /\ <<e[2], e[3]>> \in DOMAIN accts[e[1]].refs
        /\ accts[e[1]].refs[<<e[2], e[3]>>] = 0}

\* one write-back call of a plugin
WriteBack(accts, account, w) ==
    CASE w.fn = "set_value" -> set_value(accts, account, w.key, w.text)
      [] w.fn = "mcpa_set_attribute" -> mcpa_set_attribute(accts, account, w.key[2], w.value)
      [] w.fn = "mcpa_set_parameter" -> mcpa_set_parameter(accts, account, w.key[2], w.value)

WriteBacks ==
    {[fn |-> "set_value", key |-> k, text |-> x, value |-> NULL] :
        k \in {AttrKey(a) : a \in AttributeNames} \cup {ParamKey(q) : q \in ParameterNames},
        x \in EscapedTexts \cup {NullText}}
    \cup UNION {{[fn |-> "mcpa_set_attribute", key |-> AttrKey(a), text |-> NullText,
                   value |-> val] : val \in AttributeValues(a) \cup {NULL}} :
                 a \in AttributeNames}
    \cup {[fn |-> "mcpa_set_parameter", key |-> ParamKey(q), text |-> NullText, value |-> val] :
        q \in ParameterNames, val \in ParameterValues \cup {NULL}}

\* what a plugin's get (account, NULL) pushes into the cache during load
GetScripts ==
    {<<>>,
     <<[fn |-> "set_value", key |-> ParamKey("account"), text |-> <<"a">>, value |-> NULL]>>,
     <<[fn |-> "set_value", key |-> AttrKey("MC_ACCOUNTS_KEY_DISPLAY_NAME"),
        text |-> <<"a">>, value |-> NULL]>>}

RECURSIVE ApplyWriteBacks(_, _, _)
ApplyWriteBacks(accts, account, script) ==
    IF script = <<>> THEN accts
    ELSE ApplyWriteBacks(WriteBack(accts, account, Head(script)), account, Tail(script))

\* ------------------------------------------------------------------- reads

Ok(value) == [ok |-> TRUE, value |-> value, error |-> ""]
Failed(error) == [ok |-> FALSE, value |-> NULL, error |-> error]

\* a coercion that knows no way between two different types
mcd_storage_coerce_same_type_only(variant, type) ==
    IF variant.t = type THEN Ok(variant) ELSE Failed("cannot decode")

mcd_storage_coerce_variant_to_value(variant, type) ==
    IF variant.t = type THEN Ok(variant)
    ELSE LET escaped == mcd_keyfile_escape_variant(variant)
             value == IF escaped = NullText THEN NULL
                      ELSE mcd_keyfile_unescape_value(escaped, type)
         IN  IF value = NULL THEN Failed("cannot decode") ELSE Ok(value)

mcd_storage_get_attribute(accts, account, attribute, type) ==
    IF ~lookup_account(accts, account) THEN Failed("account does not exist")
    ELSE LET variant == Lookup(accts[account].attributes, attribute)
         IN  IF variant = NULL THEN Failed("not stored")
             ELSE mcd_storage_coerce_variant_to_value(variant, type)

\* get_parameter that knows the typed table only
mcd_storage_get_parameter_typed_only(accts, account, parameter, type) ==
    IF ~lookup_account(accts, account) THEN Failed("account does not exist")
    ELSE LET variant == Lookup(accts[account].parameters, parameter)
         IN  IF variant # NULL THEN mcd_storage_coerce_variant_to_value(variant, type)
             ELSE Failed("not stored")

mcd_storage_get_parameter(accts, account, parameter, type) ==
    IF ~lookup_account(accts, account) THEN Failed("account does not exist")
    ELSE LET variant == Lookup(accts[account].parameters, parameter)
             escaped == LookupText(accts[account].escaped_parameters, parameter)
         IN  IF variant # NULL THEN mcd_storage_coerce_variant_to_value(variant, type)
             ELSE IF escaped = NullText THEN Failed("not stored")
             ELSE LET value == mcd_keyfile_unescape_value(escaped, type)
                  IN  IF value = NULL THEN Failed("cannot decode") ELSE Ok(value)

\* FALSE for an unset or unparseable value
mcd_storage_get_boolean(accts, account, attribute) ==
    LET tmp == mcd_storage_get_attribute(accts, account, attribute, "b")
    IN  IF ~tmp.ok THEN [t |-> "b", v |-> FALSE] ELSE tmp.value

\* 0 for an unset or non-numeric value
mcd_storage_get_integer(accts, account, attribute) ==
    LET tmp == mcd_storage_get_attribute(accts, account, attribute, "i")
    IN  IF ~tmp.ok THEN [t |-> "i", v |-> ZeroLimbs(2)] ELSE tmp.value

\* NULL for an unset value
mcd_storage_dup_string(accts, account, attribute) ==
    LET tmp == mcd_storage_get_attribute(accts, account, attribute, "s")
    IN  IF ~tmp.ok THEN NULL ELSE tmp.value

\* the names of the records that have at least one attribute
mcd_storage_dup_accounts(accts) ==
    {k \in DOMAIN accts : DOMAIN accts[k].attributes # {}}

\* the attribute names of the record, none when there is no record
mcd_storage_dup_attributes(accts, account) ==
    IF lookup_account(accts, account) THEN DOMAIN accts[account].attributes ELSE {}

\* a read that first asks the owning plugin for the account
ReadOutcomeAskingPlugin(accts, account, ret, value, error) ==
    [accts |-> accts,
     calls |-> IF lookup_account(accts, account)
               THEN <<Call(accts[account].storage, "get", account, NoKey, TRUE)>>
               ELSE <<>>,
     ret |-> ret, value |-> value, error |-> error]

\* what a read function leaves behind besides its result: the cache it was
\* given, and no plugin call
ReadOutcome(accts, account, ret, value, error) ==
    [accts |-> accts, calls |-> <<>>, ret |-> ret, value |-> value, error |-> error]

\* ------------------------------------------------------- identify_account

\* the literal "account"
AccountLiteral == <<"a", "c", "c", "o", "u", "n", "t">>

\* the a{sv} parameters a caller passes: no "account" entry, a string one,
\* one of another type
IdentifyParameters ==
    {EmptyTable, [x \in {"account"} |-> sA], [x \in {"account"} |-> u5]}

\* the answers to IdentifyAccount: the normalised identifier or an error
IdentifyReplies ==
    {[error |-> "NULL", identification |-> <<"n">>],
     [error |-> "TP_ERROR_NOT_IMPLEMENTED", identification |-> NullText],
     [error |-> "DBUS_GERROR_SERVICE_UNKNOWN", identification |-> NullText],
     [error |-> "TP_ERROR_NETWORK_ERROR", identification |-> NullText]}

\* a request slot not used yet
NoTask ==
    [state |-> "none", parameters |-> EmptyTable, data |-> NullText,
     cancelled |-> FALSE, reply |-> "NULL", result |-> Failed(""),
     outcome |-> Failed(""), completions |-> 0]

\* task data that is the literal whatever the parameters are
identify_account_base_literal(parameters) == AccountLiteral

\* g_variant_lookup (parameters, "account", "&s", &base), else "account"
identify_account_base(parameters) ==
    IF "account" \in DOMAIN parameters /\ parameters["account"].t = "s"
    THEN parameters["account"].v
    ELSE AccountLiteral

\* identify_account_cb that makes an identifier up for every error
identify_account_cb_any_error(task, reply) ==
    IF reply.error = "NULL" THEN Ok([t |-> "s", v |-> reply.identification])
    ELSE Ok([t |-> "s", v |-> task.data])

\* what identify_account_cb returns through the task for a reply
identify_account_cb(task, reply) ==
    IF reply.error = "NULL" THEN Ok([t |-> "s", v |-> reply.identification])
    ELSE IF reply.error \in {"TP_ERROR_NOT_IMPLEMENTED", "DBUS_GERROR_SERVICE_UNKNOWN"}
    THEN Ok([t |-> "s", v |-> task.data])
    ELSE Failed(reply.error)

\* identify_account_finish: g_task_propagate_pointer checks the task's
\* cancellable before it hands the returned pointer or error out
identify_account_finish(task) ==
    IF task.cancelled THEN Failed("G_IO_ERROR_CANCELLED") ELSE task.result

\* completion that leaves the task waiting to complete
g_task_complete_again(task) ==
    [task EXCEPT !.outcome = identify_account_finish(task),
                 !.completions = @ + 1]

\* the task completes: the caller's callback runs and collects the result
g_task_complete(task) ==
    [task EXCEPT !.state = "done",
                 !.outcome = identify_account_finish(task),
                 !.completions = @ + 1]

\* g_task_return_pointer / g_task_return_error: the task completes at once
\* when it returns in a later iteration of the main loop and is not
\* cancelled, else in an idle callback
g_task_return(task, result, later) ==
    LET returned == [task EXCEPT !.state = "returned", !.result = result]
    IN  IF later /\ ~task.cancelled THEN g_task_complete(returned) ELSE returned

\* ------------------------------------------------------------------ writes

\* both NULL, or both non-NULL and g_variant_equal
mcd_nullable_variant_equal(a, b) == a = b

\* the calls update_storage may make: one sequence per way the plugin answers
update_storage(storage, account, key, variant, escaped) ==
    LET parameter == g_str_has_prefix_param(key)
    IN  IF escaped = NullText
        THEN {<<Call(storage, "delete", account, key, r)>> : r \in BOOLEAN}
        ELSE IF variant # NULL /\ ~parameter
        THEN {<<Call(storage, "set_attribute", account, key, TRUE)>>}
             \cup {<<Call(storage, "set_attribute", account, key, FALSE),
                     Call(storage, "set", account, key, r)>> : r \in BOOLEAN}
        ELSE IF variant # NULL /\ parameter
        THEN {<<Call(storage, "set_parameter", account, AttrKey(key[2]), TRUE)>>}
             \cup {<<Call(storage, "set_parameter", account, AttrKey(key[2]), FALSE),
                     Call(storage, "set", account, key, r)>> : r \in BOOLEAN}
        ELSE {<<Call(storage, "set", account, key, r)>> : r \in BOOLEAN}

\* mcd_storage_set_attribute: whether the cache requires an update
set_attribute_updated(sa, attribute, new_v) ==
    ~mcd_nullable_variant_equal(Lookup(sa.attributes, attribute), new_v)

\* set_attribute that leaves a value already cached under the key in place
set_attribute_cache_not_replacing(accts, account, attribute, new_v) ==
    IF new_v = NULL
    THEN SetRefs([accts EXCEPT ![account].attributes =
                             Remove(accts[account].attributes, attribute)],
                 account, "a", attribute, 0)
    ELSE IF attribute \in DOMAIN accts[account].attributes THEN accts
    ELSE SetRefs([accts EXCEPT ![account].attributes =
                             Insert(accts[account].attributes, attribute, new_v)],
                 account, "a", attribute, 1)

\* mcd_storage_set_attribute: the update of the attributes table; the
\* function drops its own reference to new_v, the table's one is left
set_attribute_cache(accts, account, attribute, new_v) ==
    IF new_v = NULL
    THEN SetRefs([accts EXCEPT ![account].attributes =
                             Remove(accts[account].attributes, attribute)],
                 account, "a", attribute, 0)
    ELSE SetRefs([accts EXCEPT ![account].attributes =
                             Insert(accts[account].attributes, attribute, new_v)],
                 account, "a", attribute, 1)

\* set_parameter that reports an update whenever a value is given
set_parameter_updated_unconditional(sa, parameter, value) ==
    \/ value # NULL
    \/ Lookup(sa.parameters, parameter) # NULL
    \/ LookupText(sa.escaped_parameters, parameter) # NullText

\* mcd_storage_set_parameter: whether the cache requires an update
set_parameter_updated(sa, parameter, value) ==
    LET new_escaped == IF value # NULL THEN mcd_keyfile_escape_value(value) ELSE NullText
        old_v == Lookup(sa.parameters, parameter)
        old_escaped == LookupText(sa.escaped_parameters, parameter)
    IN  IF old_v # NULL THEN ~mcd_nullable_variant_equal(old_v, value)
        ELSE IF old_escaped # NullText THEN old_escaped # new_escaped
        ELSE value # NULL

\* set_parameter that forgets the escaped table
set_parameter_cache_typed_only(accts, account, parameter, new_v) ==
    LET params == Remove(accts[account].parameters, parameter)
    IN  SetRefs([accts EXCEPT ![account].parameters =
                             IF new_v # NULL THEN Insert(params, parameter, new_v) ELSE params],
                account, "p", parameter, IF new_v # NULL THEN 2 ELSE 0)

\* mcd_storage_set_parameter: the update of the two parameter tables; the
\* function returns TRUE without dropping its own reference to new_v, so the
\* cached GVariant has two references, one of them the table's
set_parameter_cache(accts, account, parameter, new_v) ==
    LET params == Remove(accts[account].parameters, parameter)
        escaped == Remove(accts[account].escaped_parameters, parameter)
    IN  SetRefs([accts EXCEPT ![account].parameters =
                             IF new_v # NULL THEN Insert(params, parameter, new_v) ELSE params,
                         ![account].escaped_parameters = escaped],
                account, "p", parameter, IF new_v # NULL THEN 2 ELSE 0)

\* set_attribute that undoes the update when the plugin stored nothing
mcd_storage_set_attribute_undoing(accts, account, attribute, value) ==
    IF ~lookup_account(accts, account)
    THEN {[accts |-> accts, ret |-> FALSE, calls |-> <<>>]}
    ELSE IF set_attribute_updated(accts[account], attribute, value)
    THEN LET escaped == IF value # NULL THEN mcd_keyfile_escape_value(value) ELSE NullText
         IN  {[accts |-> IF c[Len(c)].ret
                         THEN set_attribute_cache(accts, account, attribute, value)
                         ELSE accts,
               ret |-> c[Len(c)].ret, calls |-> c] :
                 c \in update_storage(accts[account].storage, account,
                                      AttrKey(attribute), value, escaped)}
    ELSE {[accts |-> accts, ret |-> FALSE, calls |-> <<>>]}

\* the outcomes of mcd_storage_set_attribute on a cache: the new cache, the
\* return value and the plugin calls, one outcome per way the plugin answers
mcd_storage_set_attribute(accts, account, attribute, value) ==
    IF ~lookup_account(accts, account)
    THEN {[accts |-> accts, ret |-> FALSE, calls |-> <<>>]}
    ELSE IF set_attribute_updated(accts[account], attribute, value)
    THEN LET escaped == IF value # NULL THEN mcd_keyfile_escape_value(value) ELSE NullText
         IN  {[accts |-> set_attribute_cache(accts, account, attribute, value),
               ret |-> TRUE, calls |-> c] :
                 c \in update_storage(accts[account].storage, account,
                                      AttrKey(attribute), value, escaped)}
    ELSE {[accts |-> accts, ret |-> FALSE, calls |-> <<>>]}

mcd_storage_set_parameter(accts, account, parameter, value) ==
    IF ~lookup_account(accts, account)
    THEN {[accts |-> accts, ret |-> FALSE, calls |-> <<>>]}
    ELSE IF set_parameter_updated(accts[account], parameter, value)
    THEN LET new_escaped == IF value # NULL THEN mcd_keyfile_escape_value(value)
                            ELSE NullText
         IN  {[accts |-> set_parameter_cache(accts, account, parameter, value),
               ret |-> TRUE, calls |-> c] :
                 c \in update_storage(accts[account].storage, account,
                                      ParamKey(parameter), value, new_escaped)}
    ELSE {[accts |-> accts, ret |-> FALSE, calls |-> <<>>]}

\* ---------------------------------------------------- accounts and plugins

\* add_account_from_plugin without the check for an existing record
mcd_storage_add_account_from_plugin_unchecked(accts, plugin, account, script) ==
    IF account = NullName THEN accts
    ELSE ApplyWriteBacks(Insert(accts, account, mcd_storage_account_new(plugin)),
                         account, script)

\* the record is added unless the name is NULL or already has a record
\* (g_return_if_fail); the plugin's get then pushes its data (script)
mcd_storage_add_account_from_plugin(accts, plugin, account, script) ==
    IF account = NullName \/ account \in DOMAIN accts THEN accts
    ELSE ApplyWriteBacks(Insert(accts, account, mcd_storage_account_new(plugin)),
                         account, script)

\* what mcd_storage_add_account_from_plugin does besides: a critical warning
\* when a precondition fails, else the call of the plugin's get
add_account_calls(accts, plugin, account) ==
    IF account = NullName \/ account \in DOMAIN accts
    THEN <<Call(plugin, "critical", account, NoKey, FALSE)>>
    ELSE <<Call(plugin, "get", account, NoKey, TRUE)>>

\* unique_name that always proposes the first counter
unique_name_first(accts, bus, identification) == <<identification, 0>>

\* the first name "<base><i>" that has no record and no object on the bus;
\* NullName when the counters of the model are exhausted
unique_name(accts, bus, identification) ==
    LET free == {i \in 0..MaxCounter :
                   <<identification, i>> \notin DOMAIN accts
                   /\ <<identification, i>> \notin bus}
    IN  IF free = {} THEN NullName
        ELSE <<identification, CHOOSE i \in free : \A j \in free : i <= j>>

\* create of the compiled-in default storage: always a new unique name
default_create(accts, bus, identification) ==
    {unique_name(accts, bus, identification)}

\* create of the test plugin: no name while inactive, else a unique name
test_dbus_account_plugin_create(accts, bus, identification) ==
    {NullName, unique_name(accts, bus, identification)}

\* create of a plugin that names its accounts itself: no name, or any name
foreign_create(accts, bus, identification) == {NullName} \cup Names

mcp_account_storage_create(plugin, accts, bus, identification) ==
    IF plugin = DefaultPlugin THEN default_create(accts, bus, identification)
    ELSE IF plugin = ForeignPlugin THEN foreign_create(accts, bus, identification)
    ELSE test_dbus_account_plugin_create(accts, bus, identification)

NoProvider == "NULL"

\* provider search that settles for the first plugin of the list
ProviderPositionOfAny(list, provider) == IF Len(list) = 0 THEN 0 ELSE 1

\* position of the first plugin of the list with the given provider, 0 if none
ProviderPosition(list, provider) ==
    LET found == {i \in 1..Len(list) : mcp_account_storage_provider(list[i]) = provider}
    IN  IF found = {} THEN 0 ELSE CHOOSE i \in found : \A j \in found : i <= j

\* plugins 1..k-1 of the list may all report inability
MayDecline(list, k, accts, bus, identification) ==
    \A j \in 1..(k - 1) :
        NullName \in mcp_account_storage_create(list[j], accts, bus, identification)

\* the outcomes of mcd_storage_create_account: the new cache, the returned
\* name and the plugin calls, one outcome per way the plugins answer; script
\* is what the creating plugin's get pushes into the new record
mcd_storage_create_account(list, accts, bus, provider, identification, script) ==
    IF provider # NoProvider
    THEN LET pos == ProviderPosition(list, provider)
         IN  IF pos = 0 THEN {[accts |-> accts, name |-> NullName, calls |-> <<>>]}
             ELSE {[accts |-> mcd_storage_add_account_from_plugin(accts, list[pos], n,
                                                                  script),
                    name |-> n,
                    calls |-> <<Call(list[pos], "create", n, NoKey, n # NullName)>>
                              \o add_account_calls(accts, list[pos], n)] :
                      n \in mcp_account_storage_create(list[pos], accts, bus, identification)}
    ELSE UNION {
           {[accts |-> mcd_storage_add_account_from_plugin(accts, list[k], n, script),
             name |-> n,
             calls |-> [j \in 1..k |-> Call(list[j], "create",
                                             IF j = k THEN n ELSE NullName, NoKey, j = k)]
                       \o add_account_calls(accts, list[k], n)] :
               n \in mcp_account_storage_create(list[k], accts, bus, identification)
                       \ {NullName}} :
           k \in {i \in 1..Len(list) : MayDecline(list, i, accts, bus, identification)}}
         \cup
         (IF MayDecline(list, Len(list) + 1, accts, bus, identification)
          THEN {[accts |-> accts, name |-> NullName,
                 calls |-> [j \in 1..Len(list) |->
                               Call(list[j], "create", NullName, NoKey, FALSE)]]}
          ELSE {})

\* delete_account that keeps the record when the plugin refuses
delete_account_cache_if_deleted(accts, account, reply) ==
    IF reply THEN Remove(accts, account) ELSE accts

\* mcd_storage_delete_account: the cache after the plugin answered
delete_account_cache(accts, account, reply) == Remove(accts, account)

\* delete of the test plugin: FALSE when it has no such account or is not
\* active, TRUE once the deletion is noted for the next commit
test_dbus_account_plugin_delete(known, active) == known /\ active

\* delete_account that empties the whole cache
mcd_storage_delete_account_all(accts, account) ==
    IF ~lookup_account(accts, account)
    THEN {[accts |-> accts, ret |-> FALSE, calls |-> <<>>, held |-> FALSE]}
    ELSE {[accts |-> [n \in {} |-> accts[n]],
           ret |-> test_dbus_account_plugin_delete(known, active),
           calls |-> <<Call(accts[account].storage, "delete", account, NoKey,
                            test_dbus_account_plugin_delete(known, active))>>,
           held |-> known] :
             known \in BOOLEAN, active \in BOOLEAN}

\* the outcomes of mcd_storage_delete_account; known: the plugin holds the
\* account when asked, active: the plugin's service is running
mcd_storage_delete_account(accts, account) ==
    IF ~lookup_account(accts, account)
    THEN {[accts |-> accts, ret |-> FALSE, calls |-> <<>>, held |-> FALSE]}
    ELSE {[accts |-> delete_account_cache(accts, account,
                         test_dbus_account_plugin_delete(known, active)),
           ret |-> test_dbus_account_plugin_delete(known, active),
           calls |-> <<Call(accts[account].storage, "delete", account, NoKey,
                            test_dbus_account_plugin_delete(known, active))>>,
           held |-> known] :
             known \in BOOLEAN, active \in BOOLEAN}

\* commit that flushes every plugin whatever account is named
mcd_storage_commit_every_plugin(list, accts, account) ==
    {[j \in 1..Len(list) |-> Call(list[j], "commit", account, NoKey, r[j])] :
        r \in [1..Len(list) -> BOOLEAN]}

\* the calls mcd_storage_commit may make; account is NullName for NULL
mcd_storage_commit(list, accts, account) ==
    IF account # NullName
    THEN IF ~lookup_account(accts, account) THEN {<<>>}
         ELSE {<<Call(accts[account].storage, "commit", account, NoKey, r)>> : r \in BOOLEAN}
    ELSE {[j \in 1..Len(list) |-> Call(list[j], "commit", NullName, NoKey, r[j])] :
            r \in [1..Len(list) -> BOOLEAN]}

\* ---------------------------------------------------------------------- load

\* what list() of a plugin may return: the names of its accounts, each once
ListResults ==
    {l \in UNION {[1..n -> Names] : n \in 0..MaxListed} :
        \A i, j \in 1..Len(l) : i # j => l[i] # l[j]}

RECURSIVE LoadList(_, _, _, _)
\* the for loop of mcd_storage_load over the names one plugin reported
LoadList(st, plugin, stored, scripts) ==
    IF stored = <<>> THEN st
    ELSE LoadList([accts |-> mcd_storage_add_account_from_plugin(st.accts, plugin,
                                 Head(stored), Head(scripts)),
                   calls |-> st.calls \o add_account_calls(st.accts, plugin, Head(stored))],
                  plugin, Tail(stored), Tail(scripts))

\* ----------------------------------------------------------------- actions

\* sort_and_cache_plugins: add_storage_plugin (mcd_account_manager_default_new ())
AddDefaultPlugin ==
    /\ phase = "start"
    /\ ~plugins_cached
    /\ stores' = add_storage_plugin(stores, DefaultPlugin)
    /\ regPos' = 1
    /\ phase' = "registering"
    /\ UNCHANGED <<restVars, pluginVars, tasks, objects, plugins_cached, loadAt, accounts, dbusObjects, usedNames, last>>

\* sort_and_cache_plugins: one iteration of the loop over mcp_list_objects()
AddListedPlugin ==
    /\ phase = "registering"
    /\ regPos <= Len(objects)
    /\ stores' = add_storage_plugin(stores, objects[regPos])
    /\ regPos' = regPos + 1
    /\ UNCHANGED <<restVars, pluginVars, tasks, objects, plugins_cached, phase, loadAt, accounts, dbusObjects,
                   usedNames, last>>

\* sort_and_cache_plugins returns; mcd_storage_load: store = g_list_last (stores)
PluginsCached ==
    /\ phase = "registering"
    /\ regPos > Len(objects)
    /\ plugins_cached' = TRUE
    /\ loadAt' = Len(stores)
    /\ phase' = "load"
    /\ UNCHANGED <<restVars, pluginVars, tasks, objects, stores, regPos, accounts, dbusObjects, usedNames, last>>

\* mcd_storage_load: one iteration of the while loop over the plugins; the
\* plugin's list returns stored, its get for stored[i] pushes scripts[i]
LoadPlugin(stored, scripts) ==
    /\ phase = "load"
    /\ loadAt >= 1
    /\ LET plugin == stores[loadAt]
           st == LoadList([accts |-> accounts,
                           calls |-> <<Call(plugin, "list", NullName, NoKey, TRUE)>>],
                          plugin, stored, scripts)
       IN  /\ WithinBounds(st.accts)
           /\ accounts' = st.accts
           /\ usedNames' = usedNames \cup DOMAIN st.accts
           /\ last' = [NoOp EXCEPT !.op = "load", !.calls = st.calls]
    /\ loadAt' = loadAt - 1
    /\ phase' = IF loadAt = 1 THEN "ready" ELSE "load"
    /\ UNCHANGED <<restVars, pluginVars, tasks, objects, stores, plugins_cached, regPos, dbusObjects>>

SetAttribute(account, attribute, value) ==
    /\ phase = "ready"
    /\ \E o \in mcd_storage_set_attribute(accounts, account, attribute, value) :
         /\ WithinBounds(o.accts)
         /\ accounts' = o.accts
         /\ last' = [NoOp EXCEPT !.op = "set_attribute", !.account = account,
                                 !.key = AttrKey(attribute), !.value = value,
                                 !.ret = o.ret, !.calls = o.calls]
    /\ UNCHANGED <<restVars, pluginVars, tasks, objects, stores, plugins_cached, regPos, phase, loadAt,
                   dbusObjects, usedNames>>

SetParameter(account, parameter, value) ==
    /\ phase = "ready"
    /\ \E o \in mcd_storage_set_parameter(accounts, account, parameter, value) :
         /\ WithinBounds(o.accts)
         /\ accounts' = o.accts
         /\ last' = [NoOp EXCEPT !.op = "set_parameter", !.account = account,
                                 !.key = ParamKey(parameter), !.value = value,
                                 !.ret = o.ret, !.calls = o.calls]
    /\ UNCHANGED <<restVars, pluginVars, tasks, objects, stores, plugins_cached, regPos, phase, loadAt,
                   dbusObjects, usedNames>>

\* a plugin calls one of set_value, mcpa_set_attribute, mcpa_set_parameter
PluginWriteBack(account, w) ==
    /\ phase = "ready"
    /\ LET accts == WriteBack(accounts, account, w)
       IN  /\ WithinBounds(accts)
           /\ accounts' = accts
    /\ last' = [NoOp EXCEPT !.op = w.fn, !.account = account, !.key = w.key,
                            !.value = w.value, !.text = w.text]
    /\ UNCHANGED <<restVars, pluginVars, tasks, objects, stores, plugins_cached, regPos, phase, loadAt,
                   dbusObjects, usedNames>>

\* a plugin calls get_value
GetValue(account, key) ==
    /\ phase = "ready"
    /\ LET r == get_value(accounts, account, key)
       IN  /\ accounts' = r.accts
           /\ last' = [NoOp EXCEPT !.op = "get_value", !.account = account, !.key = key,
                                   !.text = r.ret, !.ret = (r.ret # NullText)]
    /\ UNCHANGED <<restVars, pluginVars, tasks, objects, stores, plugins_cached, regPos, phase, loadAt,
                   dbusObjects, usedNames>>

\* a plugin calls list_keys
ListKeys(account) ==
    /\ phase = "ready"
    /\ last' = [NoOp EXCEPT !.op = "list_keys", !.account = account,
                            !.keys = list_keys(accounts, account)]
    /\ UNCHANGED <<restVars, pluginVars, tasks, objects, stores, plugins_cached, regPos, phase, loadAt,
                   accounts, dbusObjects, usedNames>>

\* the next use of a table that holds the address of a freed GVariant: the
\* process is aborted, or it goes on with whatever the memory now reads as
UseAfterFree ==
    /\ phase = "ready"
    /\ \E e \in Freed(accounts) :
         \/ /\ phase' = "crashed"
            /\ accounts' = accounts
         \/ /\ phase' = phase
            /\ \E val \in Values, count \in 1..2 :
                 accounts' = SetRefs(
                     IF e[2] = "a"
                     THEN [accounts EXCEPT ![e[1]].attributes = Insert(@, e[3], val)]
                     ELSE [accounts EXCEPT ![e[1]].parameters = Insert(@, e[3], val)],
                     e[1], e[2], e[3], count)
    /\ last' = [NoOp EXCEPT !.op = "use_after_free"]
    /\ UNCHANGED <<restVars, pluginVars, tasks, objects, stores, plugins_cached, regPos, loadAt,
                   dbusObjects, usedNames>>

CreateAccount(provider, identification, script) ==
    /\ phase = "ready"
    /\ unique_name(accounts, dbusObjects, identification) # NullName
    /\ \E o \in mcd_storage_create_account(stores, accounts, dbusObjects, provider,
                                            identification, script) :
         /\ WithinBounds(o.accts)
         /\ accounts' = o.accts
         /\ usedNames' = usedNames \cup DOMAIN o.accts
         /\ last' = [NoOp EXCEPT !.op = "create_account", !.name = o.name,
                                 !.key = <<provider, identification>>,
                                 !.ret = (o.name # NullName), !.calls = o.calls]
    /\ UNCHANGED <<restVars, pluginVars, tasks, objects, stores, plugins_cached, regPos, phase, loadAt, dbusObjects>>

DeleteAccount(account) ==
    /\ phase = "ready"
    /\ \E o \in mcd_storage_delete_account(accounts, account) :
         /\ accounts' = o.accts
         /\ last' = [NoOp EXCEPT !.op = "delete_account", !.account = account,
                                 !.ret = o.ret, !.calls = o.calls, !.held = o.held]
    /\ UNCHANGED <<restVars, pluginVars, tasks, objects, stores, plugins_cached, regPos, phase, loadAt,
                   dbusObjects, usedNames>>

Commit(account) ==
    /\ phase = "ready"
    /\ \E c \in mcd_storage_commit(stores, accounts, account) :
         last' = [NoOp EXCEPT !.op = "commit", !.account = account, !.calls = c]
    /\ UNCHANGED <<restVars, pluginVars, tasks, objects, stores, plugins_cached, regPos, phase, loadAt, accounts,
                   dbusObjects, usedNames>>

\* the account layer exports the object of a cached account on the bus
RegisterObject(account) ==
    /\ phase = "ready"
    /\ account \in DOMAIN accounts
    /\ account \notin dbusObjects
    /\ Cardinality(dbusObjects) < MaxDBusObjects
    /\ dbusObjects' = dbusObjects \cup {account}
    /\ last' = [NoOp EXCEPT !.op = "register_object", !.account = account]
    /\ UNCHANGED <<restVars, pluginVars, tasks, objects, stores, plugins_cached, regPos, phase, loadAt, accounts,
                   usedNames>>

\* the account layer removes an object from the bus
UnregisterObject(account) ==
    /\ phase = "ready"
    /\ account \in dbusObjects
    /\ dbusObjects' = dbusObjects \ {account}
    /\ last' = [NoOp EXCEPT !.op = "unregister_object", !.account = account]
    /\ UNCHANGED <<restVars, pluginVars, tasks, objects, stores, plugins_cached, regPos, phase, loadAt, accounts,
                   usedNames>>

\* ------------------------------------------------------------ specifications

\* a read function returns: o is its outcome, attrs and names what the
\* listing functions return
ReadStep(op, account, key, type, o, attrs, names) ==
    /\ phase = "ready"
    /\ accounts' = o.accts
    /\ last' = [NoOp EXCEPT !.op = op, !.account = account, !.key = key,
                            !.type = type, !.ret = o.ret, !.value = o.value,
                            !.error = o.error, !.calls = o.calls,
                            !.attributes = attrs, !.accounts = names]
    /\ UNCHANGED <<restVars, pluginVars, tasks, objects, stores, plugins_cached, regPos, phase, loadAt,
                   dbusObjects, usedNames>>

GetAttribute(account, attribute, type) ==
    LET r == mcd_storage_get_attribute(accounts, account, attribute, type)
    IN  ReadStep("get_attribute", account, AttrKey(attribute), type,
                 ReadOutcome(accounts, account, r.ok, r.value, r.error), {}, {})

GetParameter(account, parameter, type) ==
    LET r == mcd_storage_get_parameter(accounts, account, parameter, type)
    IN  ReadStep("get_parameter", account, ParamKey(parameter), type,
                 ReadOutcome(accounts, account, r.ok, r.value, r.error), {}, {})

GetBoolean(account, attribute) ==
    ReadStep("get_boolean", account, AttrKey(attribute), "b",
             ReadOutcome(accounts, account, TRUE,
                         mcd_storage_get_boolean(accounts, account, attribute), ""),
             {}, {})

GetInteger(account, attribute) ==
    ReadStep("get_integer", account, AttrKey(attribute), "i",
             ReadOutcome(accounts, account, TRUE,
                         mcd_storage_get_integer(accounts, account, attribute), ""),
             {}, {})

DupString(account, attribute) ==
    ReadStep("dup_string", account, AttrKey(attribute), "s",
             ReadOutcome(accounts, account, TRUE,
                         mcd_storage_dup_string(accounts, account, attribute), ""),
             {}, {})

DupAttributes(account) ==
    ReadStep("dup_attributes", account, NoKey, "",
             ReadOutcome(accounts, account, TRUE, NULL, ""),
             mcd_storage_dup_attributes(accounts, account), {})

DupAccounts ==
    ReadStep("dup_accounts", NullName, NoKey, "",
             ReadOutcome(accounts, NullName, TRUE, NULL, ""),
             {}, mcd_storage_dup_accounts(accounts))

\* identify_account_async: the task is made, and the call is sent unless
\* tp_protocol_new fails (protocol = FALSE)
IdentifyAccountAsync(id, parameters, protocol) ==
    /\ phase = "ready"
    /\ tasks[id].state = "none"
    /\ \A j \in 1..(id - 1) : tasks[j].state # "none"
    /\ LET task == [NoTask EXCEPT !.state = "calling", !.parameters = parameters,
                                  !.data = identify_account_base(parameters)]
       IN  tasks' = [tasks EXCEPT ![id] =
                        IF protocol THEN task
                        ELSE g_task_return(task, Failed("tp_protocol_new"), FALSE)]
    /\ last' = [NoOp EXCEPT !.op = "identify_account_async"]
    /\ UNCHANGED <<restVars, pluginVars, objects, stores, plugins_cached, regPos, phase, loadAt, accounts,
                   dbusObjects, usedNames>>

\* the reply to IdentifyAccount arrives: identify_account_cb
IdentifyAccountCb(id, reply) ==
    /\ tasks[id].state = "calling"
    /\ tasks' = [tasks EXCEPT ![id] =
                    g_task_return([tasks[id] EXCEPT !.reply = reply.error],
                                  identify_account_cb(tasks[id], reply), TRUE)]
    /\ last' = [NoOp EXCEPT !.op = "identify_account_cb"]
    /\ UNCHANGED <<restVars, pluginVars, objects, stores, plugins_cached, regPos, phase, loadAt, accounts,
                   dbusObjects, usedNames>>

\* the idle callback of a returned task runs
TaskIdle(id) ==
    /\ tasks[id].state = "returned"
    /\ tasks' = [tasks EXCEPT ![id] = g_task_complete(tasks[id])]
    /\ last' = [NoOp EXCEPT !.op = "g_task_complete"]
    /\ UNCHANGED <<restVars, pluginVars, objects, stores, plugins_cached, regPos, phase, loadAt, accounts,
                   dbusObjects, usedNames>>

\* the caller cancels the GCancellable of a request that has not completed
Cancel(id) ==
    /\ tasks[id].state \in {"calling", "returned"}
    /\ ~tasks[id].cancelled
    /\ tasks' = [tasks EXCEPT ![id].cancelled = TRUE]
    /\ last' = [NoOp EXCEPT !.op = "g_cancellable_cancel"]
    /\ UNCHANGED <<restVars, pluginVars, objects, stores, plugins_cached, regPos, phase, loadAt, accounts,
                   dbusObjects, usedNames>>

\* mcd_keyfile_escape_value of the value the caller holds
EscapeValue ==
    /\ last.op = "input"
    /\ last.value # NULL
    /\ last' = [last EXCEPT !.op = "escape_value",
                            !.text = mcd_keyfile_escape_value(last.value)]
    /\ UNCHANGED <<restVars, pluginVars, tasks, objects, stores, plugins_cached, regPos, phase, loadAt,
                   accounts, dbusObjects, usedNames>>

\* mcd_keyfile_unescape_value of the text the caller holds into a GValue of
\* the type asked; of the text just escaped into a GValue of the type of
\* the value that was escaped
UnescapeValue ==
    /\ \/ last.op = "input" /\ last.value = NULL /\ last.type # ""
       \/ last.op = "escape_value"
    /\ last.text # NullText
    /\ LET type == IF last.op = "input" THEN last.type ELSE last.value.t
           decoded == mcd_keyfile_unescape_value(last.text, type)
       IN  last' = [last EXCEPT !.op = "unescape_value", !.type = type,
                                !.decoded = decoded, !.ret = (decoded # NULL)]
    /\ UNCHANGED <<restVars, pluginVars, tasks, objects, stores, plugins_cached, regPos, phase, loadAt,
                   accounts, dbusObjects, usedNames>>

\* mcd_storage_coerce_variant_to_value of the value the caller holds into a
\* GValue of the type asked
CoerceVariant ==
    /\ last.op = "input"
    /\ last.value # NULL
    /\ LET r == mcd_storage_coerce_variant_to_value(last.value, last.type)
       IN  last' = [last EXCEPT !.op = "coerce_variant_to_value", !.decoded = r.value,
                                !.ret = r.ok, !.error = r.error]
    /\ UNCHANGED <<restVars, pluginVars, tasks, objects, stores, plugins_cached, regPos, phase, loadAt,
                   accounts, dbusObjects, usedNames>>

\* mcd_storage_init_value_for_attribute of the attribute name the caller
\* holds; the type is "" when the function returns FALSE
InitValueForAttribute ==
    /\ last.op = "input"
    /\ last.key # NoKey
    /\ LET type == mcd_storage_init_value_for_attribute(last.key[2])
       IN  last' = [last EXCEPT !.op = "init_value_for_attribute", !.type = type,
                                !.ret = (type # "")]
    /\ UNCHANGED <<restVars, pluginVars, tasks, objects, stores, plugins_cached, regPos, phase, loadAt,
                   accounts, dbusObjects, usedNames>>

InitWith(objs) ==
    /\ objects = objs
    /\ stores = <<>>
    /\ plugins_cached = FALSE
    /\ regPos = 0
    /\ phase = "start"
    /\ loadAt = 0
    /\ accounts = [n \in {} |-> mcd_storage_account_new(DefaultPlugin)]
    /\ dbusObjects = {}
    /\ usedNames = {}
    /\ last = NoOp
    /\ tasks = [id \in 1..MaxRequests |-> NoTask]
    /\ PluginIdle
    /\ RestIdle

Registry ==
    \/ AddDefaultPlugin
    \/ AddListedPlugin
    \/ PluginsCached

\* the cache under writes: two plugins, accounts from load and create
Init == InitWith(<<TestDBusAccountPlugin>>)

Next ==
    \/ Registry
    \/ \E stored \in ListResults :
         \E scripts \in [1..Len(stored) -> GetScripts] : LoadPlugin(stored, scripts)
    \/ \E a \in Names, k \in AttributeNames :
         \E val \in AttributeValues(k) \cup {NULL} : SetAttribute(a, k, val)
    \/ \E a \in Names, q \in ParameterNames :
         \E val \in ParameterValues \cup {NULL} : SetParameter(a, q, val)
    \/ \E a \in Names, w \in WriteBacks : PluginWriteBack(a, w)
    \/ \E id \in Identifications, script \in GetScripts :
         CreateAccount(NoProvider, id, script)
    \/ \E a \in Names : DeleteAccount(a)
    \/ \E a \in Names \cup {NullName} : Commit(a)

Spec == Init /\ [][Next]_vars

\* accounts and plugins: three plugins, load, create, delete, commit and the bus
InitAccounts == InitWith(<<KeyfilePlugin, TestDBusAccountPlugin>>)

NextAccounts ==
    \/ Registry
    \/ \E stored \in ListResults :
         \E scripts \in [1..Len(stored) -> GetScripts] : LoadPlugin(stored, scripts)
    \/ \E pr \in {NoProvider, "", "default-provider", "no-such-provider"},
          id \in Identifications, script \in GetScripts : CreateAccount(pr, id, script)
    \/ \E a \in Names : DeleteAccount(a)
    \/ \E a \in Names \cup {NullName} : Commit(a)
    \/ \E a \in Names : RegisterObject(a)
    \/ \E a \in Names : UnregisterObject(a)

SpecAccounts == InitAccounts /\ [][NextAccounts]_vars

\* creation with a plugin that names its accounts itself
InitCreate == InitWith(<<ForeignPlugin>>)

NextCreate ==
    \/ Registry
    \/ \E stored \in ListResults :
         \E scripts \in [1..Len(stored) -> GetScripts] : LoadPlugin(stored, scripts)
    \/ \E pr \in {NoProvider, "default-provider", "foreign-provider"},
          id \in Identifications, script \in GetScripts : CreateAccount(pr, id, script)
    \/ \E a \in Names : DeleteAccount(a)

SpecCreate == InitCreate /\ [][NextCreate]_vars

\* plugin objects of the registry specification: priorities with ties
RegistryPlugins ==
    {[name |-> "p1", priority |-> 100, provider |-> ""],
     [name |-> "p2", priority |-> 100, provider |-> ""],
     [name |-> "p3", priority |-> 50, provider |-> ""],
     [name |-> "p4", priority |-> 0, provider |-> ""],
     [name |-> "p5", priority |-> 100, provider |-> ""]}

RegistryObjectLists ==
    {l \in UNION {[1..n -> RegistryPlugins] : n \in 0..MaxObjects} :
        \A i, j \in 1..Len(l) : i # j => l[i] # l[j]}

InitRegistry == \E objs \in RegistryObjectLists : InitWith(objs)

NextRegistry == Registry

SpecRegistry == InitRegistry /\ [][NextRegistry]_vars

\* GTypes a caller initialises the GValue of a read to
ReadTypes == {"s", "b", "i", "u"}

\* the cache under reads: accounts from load, then writes and reads
InitRead == InitWith(<<TestDBusAccountPlugin>>)

NextRead ==
    \/ Registry
    \/ \E stored \in ListResults :
         \E scripts \in [1..Len(stored) -> GetScripts] : LoadPlugin(stored, scripts)
    \/ \E a \in Names, k \in AttributeNames :
         \E val \in AttributeValues(k) \cup {NULL} : SetAttribute(a, k, val)
    \/ \E a \in Names, k \in ParameterNames, val \in ParameterValues \cup {NULL} :
         SetParameter(a, k, val)
    \/ \E a \in Names, k \in AttributeNames, t \in ReadTypes : GetAttribute(a, k, t)
    \/ \E a \in Names, k \in ParameterNames, t \in ReadTypes : GetParameter(a, k, t)
    \/ \E a \in Names, k \in AttributeNames : GetBoolean(a, k)
    \/ \E a \in Names, k \in AttributeNames : GetInteger(a, k)
    \/ \E a \in Names, k \in AttributeNames : DupString(a, k)
    \/ \E a \in Names : DupAttributes(a)
    \/ DupAccounts

SpecRead == InitRead /\ [][NextRead]_vars

\* identify_account requests over a loaded cache; the main loop runs every
\* idle callback, and every call gets its reply or its error
InitIdentify == InitWith(<<TestDBusAccountPlugin>>)

NextIdentify ==
    \/ Registry
    \/ \E stored \in {l \in ListResults : Len(l) <= 1} :
         \E scripts \in [1..Len(stored) -> {<<>>}] : LoadPlugin(stored, scripts)
    \/ \E id \in 1..MaxRequests, parameters \in IdentifyParameters, protocol \in BOOLEAN :
         IdentifyAccountAsync(id, parameters, protocol)
    \/ \E id \in 1..MaxRequests, reply \in IdentifyReplies : IdentifyAccountCb(id, reply)
    \/ \E id \in 1..MaxRequests : TaskIdle(id)
    \/ \E id \in 1..MaxRequests : Cancel(id)

SpecIdentify ==
    /\ InitIdentify
    /\ [][NextIdentify]_vars
    /\ \A id \in 1..MaxRequests :
         /\ WF_vars(\E reply \in IdentifyReplies : IdentifyAccountCb(id, reply))
         /\ WF_vars(TaskIdle(id))

\* ---- the boundary with the plugins: an attribute and a parameter of the
\* ---- same name, written and read from both sides

KeyName == "account"
\* any GValue may be stored under a name the schema does not have
KeyValues == {sA, bT, ayB}
KeyWriteBacks ==
    {[fn |-> "set_value", key |-> k, text |-> x, value |-> NULL] :
        k \in {AttrKey(KeyName), ParamKey(KeyName)}, x \in {<<"a">>, NullText}}
    \cup {[fn |-> "mcpa_set_attribute", key |-> AttrKey(KeyName), text |-> NullText,
            value |-> val] : val \in {sA, NULL}}
    \cup {[fn |-> "mcpa_set_parameter", key |-> ParamKey(KeyName), text |-> NullText,
            value |-> val] : val \in {bT, NULL}}

InitPlugin == InitWith(<<TestDBusAccountPlugin>>)

NextPlugin ==
    \/ Registry
    \/ \E stored \in {l \in ListResults : Len(l) <= 1} :
         \E scripts \in [1..Len(stored) -> {<<>>}] : LoadPlugin(stored, scripts)
    \/ \E a \in Names, val \in KeyValues \cup {NULL} :
         Freed(accounts) = {} /\ SetAttribute(a, KeyName, val)
    \/ \E a \in Names, val \in KeyValues \cup {NULL} :
         Freed(accounts) = {} /\ SetParameter(a, KeyName, val)
    \/ \E a \in Names, w \in KeyWriteBacks :
         Freed(accounts) = {} /\ PluginWriteBack(a, w)
    \/ \E a \in Names, k \in {AttrKey(KeyName), ParamKey(KeyName)} :
         Freed(accounts) = {} /\ GetValue(a, k)
    \/ \E a \in Names : Freed(accounts) = {} /\ ListKeys(a)
    \/ UseAfterFree

SpecPlugin == InitPlugin /\ [][NextPlugin]_vars

\* ---- the codec and the schema on their own

\* integers of 32 and of 64 bits at their bounds
Int32Values == {ZeroLimbs(2), <<0, 5>>, MaxLimbs(2), MaxSignedLimbs(2), MinLimbs(2)}
Int64Values == {ZeroLimbs(4), <<0, 1, 0, 0>>, MaxLimbs(4), MaxSignedLimbs(4), MinLimbs(4)}
\* strings: empty, with the list separator, a leading space, a backslash
StringValues == {<<>>, <<"a">>, <<"a", ";", "b">>, <<" ", "a", " ">>, <<"\\">>, <<"5">>}
PathValues == {<<"/">>, <<"/", "a">>, <<"/", "a", "/", "b", "_", "0">>}

\* valid values of every type of the schema
CodecValues ==
    {[t |-> "b", v |-> b] : b \in BOOLEAN}
    \cup {[t |-> "i", v |-> n] : n \in Int32Values}
    \cup {[t |-> "u", v |-> n] : n \in Int32Values}
    \cup {[t |-> "x", v |-> n] : n \in Int64Values}
    \cup {[t |-> "t", v |-> n] : n \in Int64Values}
    \cup {[t |-> "y", v |-> n] : n \in {0, 5, 255}}
    \cup {[t |-> "s", v |-> str] : str \in StringValues}
    \cup {[t |-> "as", v |-> l] : l \in {<<>>} \cup {<<x>> : x \in StringValues}
                                       \cup {<<x, y>> : x, y \in {<<>>, <<"a", ";", "b">>}}}
    \cup {[t |-> "o", v |-> path] : path \in PathValues}
    \cup {[t |-> "ao", v |-> l] : l \in {<<>>} \cup {<<x>> : x \in PathValues}
                                       \cup {<<x, y>> : x, y \in PathValues}}
    \cup {[t |-> "(uss)", v |-> <<n, x, y>>] :
             n \in {ZeroLimbs(2), <<0, 2>>, MaxLimbs(2)},
             x \in {<<>>, <<"a">>}, y \in {<<>>, <<"a", ";", "b">>}}

\* the types a caller may ask for: those of the schema and two others
CodecTypes == {"b", "i", "u", "x", "t", "y", "s", "as", "o", "ao", "(uss)", "n", "ay"}

\* escaped texts, valid and invalid for the types
CodecTexts ==
    {<<>>, <<"5">>, <<"-", "1">>, <<"+", "5">>, <<"5", "a">>, <<"2", "5", "5">>,
     <<"2", "5", "6">>, <<"t", "r", "u", "e">>,
     <<"4", "2", "9", "4", "9", "6", "7", "2", "9", "5">>,
     <<"4", "2", "9", "4", "9", "6", "7", "2", "9", "6">>,
     <<"2", "1", "4", "7", "4", "8", "3", "6", "4", "8">>,
     <<"a">>, <<"a", "\\">>, <<"/", "a">>, <<"/", "a", "/">>, <<"/", "/", "a">>,
     <<"/", "a", ";", "/", "b", ";">>, <<"/", "a", ";", "b", ";">>,
     <<"1", ";", "a", ";", "b", ";">>, <<"1", ";", "a", ";">>,
     <<"1", ";", "a", ";", "b", ";", "a", ";">>, <<"a", ";", "a", ";", "b", ";">>,
     <<";", "a", ";", "b", ";">>, <<"-", "1", ";", "a", ";", "b", ";">>,
     <<"4", "2", "9", "4", "9", "6", "7", "2", "9", "6", ";", "a", ";", "b", ";">>}

\* attribute names: those of the schema and two the schema does not have
SchemaNames ==
    {known_attributes[k][2] : k \in DOMAIN known_attributes}
    \cup {"NoSuchAttribute", "account"}

\* the caller holds a value and the type to read it as, or a text and the
\* type to decode it as, or an attribute name
CodecInputs ==
    {[NoOp EXCEPT !.op = "input", !.value = v, !.type = ty] :
        v \in CodecValues, ty \in CodecTypes}
    \cup {[NoOp EXCEPT !.op = "input", !.text = x, !.type = ty] :
             x \in CodecTexts, ty \in CodecTypes}
    \cup {[NoOp EXCEPT !.op = "input", !.key = AttrKey(name)] : name \in SchemaNames}

InitCodec ==
    /\ objects = <<>>
    /\ stores = <<>>
    /\ plugins_cached = FALSE
    /\ regPos = 0
    /\ phase = "start"
    /\ loadAt = 0
    /\ accounts = [n \in {} |-> mcd_storage_account_new(DefaultPlugin)]
    /\ dbusObjects = {}
    /\ usedNames = {}
    /\ last \in CodecInputs
    /\ tasks = [id \in 1..MaxRequests |-> NoTask]
    /\ PluginIdle
    /\ RestIdle

NextCodec ==
    \/ EscapeValue
    \/ UnescapeValue
    \/ CoerceVariant
    \/ InitValueForAttribute

SpecCodec == InitCodec /\ [][NextCodec]_vars

\* ---- reads of a cache that holds one value of any type: the state after
\* ---- the load of one account whose plugin pushed one value

CoerceWriteBacks ==
    {[fn |-> "mcpa_set_attribute", key |-> AttrKey("MC_ACCOUNTS_KEY_DISPLAY_NAME"),
      text |-> NullText, value |-> val] : val \in CodecValues \cup {ayB}}
    \cup {[fn |-> "mcpa_set_parameter", key |-> ParamKey("account"), text |-> NullText,
            value |-> val] : val \in CodecValues \cup {ayB}}
    \cup {[fn |-> "set_value", key |-> ParamKey("account"), text |-> x, value |-> NULL] :
             x \in CodecTexts}

InitCoerce ==
    /\ objects = <<>>
    /\ stores = <<DefaultPlugin>>
    /\ plugins_cached = TRUE
    /\ regPos = 1
    /\ phase = "ready"
    /\ loadAt = 0
    /\ \E w \in CoerceWriteBacks :
         accounts = mcd_storage_add_account_from_plugin(
                        [n \in {} |-> mcd_storage_account_new(DefaultPlugin)],
                        DefaultPlugin, <<"x", 0>>, <<w>>)
    /\ dbusObjects = {}
    /\ usedNames = {<<"x", 0>>}
    /\ last = [NoOp EXCEPT !.op = "load",
                           !.calls = <<Call(DefaultPlugin, "list", NullName, NoKey, TRUE),
                                       Call(DefaultPlugin, "get", <<"x", 0>>, NoKey, TRUE)>>]
    /\ tasks = [id \in 1..MaxRequests |-> NoTask]
    /\ PluginIdle
    /\ RestIdle

NextCoerce ==
    \/ \E t \in CodecTypes : GetAttribute(<<"x", 0>>, "MC_ACCOUNTS_KEY_DISPLAY_NAME", t)
    \/ \E t \in CodecTypes : GetParameter(<<"x", 0>>, "account", t)

SpecCoerce == InitCoerce /\ [][NextCoerce]_vars

\* ---- set_value of attribute keys: names of each declared type and a name
\* ---- the schema does not have, texts that decode as some types only

SetValueNames ==
    {"MC_ACCOUNTS_KEY_DISPLAY_NAME", "MC_ACCOUNTS_KEY_ENABLED",
     "MC_ACCOUNTS_KEY_AUTO_PRESENCE_TYPE", "MC_ACCOUNTS_KEY_URI_SCHEMES", "account"}
SetValueTexts ==
    {<<"a">>, <<"5">>, <<"-", "1">>, <<"t", "r", "u", "e">>, <<"a", "\\">>, NullText}
SetValueWriteBacks ==
    {[fn |-> "set_value", key |-> AttrKey(name), text |-> x, value |-> NULL] :
        name \in SetValueNames, x \in SetValueTexts}

InitSetValue ==
    /\ objects = <<>>
    /\ stores = <<DefaultPlugin>>
    /\ plugins_cached = TRUE
    /\ regPos = 1
    /\ phase = "ready"
    /\ loadAt = 0
    /\ accounts = mcd_storage_add_account_from_plugin(
                      [n \in {} |-> mcd_storage_account_new(DefaultPlugin)],
                      DefaultPlugin, <<"x", 0>>, <<>>)
    /\ dbusObjects = {}
    /\ usedNames = {<<"x", 0>>}
    /\ last = NoOp
    /\ tasks = [id \in 1..MaxRequests |-> NoTask]
    /\ PluginIdle
    /\ RestIdle

NextSetValue == \E a \in Names, w \in SetValueWriteBacks : PluginWriteBack(a, w)

SpecSetValue == InitSetValue /\ [][NextSetValue]_vars

\* ------------------------------------- tests/twisted/dbus-account-plugin.c

\* x & y, x | y and x & ~y on the bits of non-negative integers
RECURSIVE BitAnd(_, _)
BitAnd(x, y) ==
    IF x = 0 \/ y = 0 THEN 0
    ELSE (x % 2) * (y % 2) + 2 * BitAnd(x \div 2, y \div 2)
BitOr(x, y) == x + y - BitAnd(x, y)
BitClear(x, y) == x - BitAnd(x, y)

\* the test the plugin makes of a flag: (account->flags & FLAG)
FlagSet(flags, flag) == BitAnd(flags, flag) # 0

\* the elements of a set one after the other, as a hash table iterates
RECURSIVE IterateSet(_)
IterateSet(S) ==
    IF S = {} THEN <<>>
    ELSE <<CHOOSE x \in S : TRUE>> \o IterateSet(S \ {CHOOSE x \in S : TRUE})

\* the Account ensure_account allocates; path, attribute_flags and
\* parameter_flags are not modelled
test_dbus_account_new ==
    [attributes |-> EmptyTable, parameters |-> EmptyTable,
     untyped_parameters |-> EmptyTable,
     uncommitted_attributes |-> {}, uncommitted_parameters |-> {},
     flags |-> UNCOMMITTED_CREATION]

ensure_account(table, account_name) ==
    [Insert(table, account_name,
            IF account_name \in DOMAIN table THEN table[account_name]
            ELSE test_dbus_account_new)
        EXCEPT ![account_name].flags = BitClear(@, UNCOMMITTED_DELETION)]

\* test_dbus_account_plugin_add_account: the tables the service reported
test_dbus_account_plugin_add_account(table, account_name, data) ==
    [ensure_account(table, account_name)
        EXCEPT ![account_name].attributes = data.attributes,
               ![account_name].parameters = data.parameters,
               ![account_name].untyped_parameters = data.untyped_parameters]

\* the reply of GetAccounts: no owner of the service name, or the accounts
NoOwner == "G_DBUS_ERROR_NAME_HAS_NO_OWNER"

RECURSIVE AddAccounts(_, _, _)
AddAccounts(table, reply, names) ==
    IF names = <<>> THEN table
    ELSE AddAccounts(test_dbus_account_plugin_add_account(table, Head(names),
                                                          reply[Head(names)]),
                     reply, Tail(names))

\* test_dbus_account_plugin_list: the plugin after the reply
test_dbus_account_plugin_list(act, table, reply) ==
    IF reply.error = NoOwner THEN [active |-> act, table |-> table]
    ELSE [active |-> TRUE,
          table |-> AddAccounts(table, reply.accounts, IterateSet(DOMAIN reply.accounts))]

\* create of the test plugin; name is what
\* mcp_account_manager_get_unique_name gave
dbus_plugin_create(act, table, name) ==
    IF ~act THEN [table |-> table, name |-> NullName]
    ELSE [table |-> ensure_account(table, name), name |-> name]

\* delete of the test plugin; NoKey is the NULL key
dbus_plugin_delete(act, table, account_name, key) ==
    IF account_name \notin DOMAIN table \/ ~act THEN [table |-> table, ret |-> FALSE]
    ELSE IF key = NoKey
    THEN [table |-> [table EXCEPT ![account_name] =
                        [attributes |-> EmptyTable, parameters |-> EmptyTable,
                         untyped_parameters |-> EmptyTable,
                         uncommitted_attributes |-> {}, uncommitted_parameters |-> {},
                         flags |-> BitClear(BitOr(@.flags, UNCOMMITTED_DELETION),
                                            UNCOMMITTED_CREATION)]],
          ret |-> TRUE]
    ELSE IF g_str_has_prefix_param(key)
    THEN [table |-> [table EXCEPT
                        ![account_name].parameters = Remove(@, key[2]),
                        ![account_name].untyped_parameters = Remove(@, key[2]),
                        ![account_name].uncommitted_parameters = @ \cup {key[2]}],
          ret |-> TRUE]
    ELSE [table |-> [table EXCEPT
                        ![account_name].attributes = Remove(@, key[2]),
                        ![account_name].uncommitted_attributes = @ \cup {key[2]}],
          ret |-> TRUE]

\* one mcp_account_manager_set_value the plugin's get makes
SetValueCall(key, text) == [fn |-> "set_value", key |-> key, text |-> text, value |-> NULL]

EscapedAttributes(account, names) ==
    [i \in 1..Len(names) |->
        SetValueCall(AttrKey(names[i]),
                     mcd_keyfile_escape_variant(account.attributes[names[i]]))]
UntypedParameters(account, names) ==
    [i \in 1..Len(names) |->
        SetValueCall(ParamKey(names[i]), account.untyped_parameters[names[i]])]
EscapedParameters(account, names) ==
    [i \in 1..Len(names) |->
        SetValueCall(ParamKey(names[i]),
                     mcd_keyfile_escape_variant(account.parameters[names[i]]))]

\* test_dbus_account_plugin_get: the answer and the set_value calls made
test_dbus_account_plugin_get(act, table, account_name, key) ==
    IF ~act \/ account_name \notin DOMAIN table THEN [ret |-> FALSE, calls |-> <<>>]
    ELSE IF FlagSet(table[account_name].flags, UNCOMMITTED_DELETION)
    THEN [ret |-> FALSE, calls |-> <<>>]
    ELSE IF key = NoKey
    THEN [ret |-> TRUE,
          calls |-> EscapedAttributes(table[account_name],
                        IterateSet(DOMAIN table[account_name].attributes))
                    \o UntypedParameters(table[account_name],
                        IterateSet(DOMAIN table[account_name].untyped_parameters))
                    \o EscapedParameters(table[account_name],
                        IterateSet(DOMAIN table[account_name].parameters))]
    ELSE IF g_str_has_prefix_param(key)
    THEN IF key[2] \in DOMAIN table[account_name].parameters
         THEN [ret |-> TRUE, calls |-> EscapedParameters(table[account_name], <<key[2]>>)]
         ELSE IF key[2] \in DOMAIN table[account_name].untyped_parameters
         THEN [ret |-> TRUE, calls |-> UntypedParameters(table[account_name], <<key[2]>>)]
         ELSE [ret |-> FALSE, calls |-> <<>>]
    ELSE IF key[2] \in DOMAIN table[account_name].attributes
    THEN [ret |-> TRUE, calls |-> EscapedAttributes(table[account_name], <<key[2]>>)]
    ELSE [ret |-> FALSE, calls |-> <<>>]

\* the attribute branch of test_dbus_account_plugin_set, variant being what
\* mcp_account_manager_unescape_value_from_keyfile made of the text
SetAttributeVariant(table, account_name, key, variant) ==
    IF variant = NULL THEN [table |-> table, ret |-> FALSE]
    ELSE [table |-> [table EXCEPT
                        ![account_name].attributes = Insert(@, key[2], variant),
                        ![account_name].uncommitted_attributes = @ \cup {key[2]}],
          ret |-> TRUE]

test_dbus_account_plugin_set(act, table, account_name, key, value) ==
    IF ~act \/ account_name \notin DOMAIN table THEN [table |-> table, ret |-> FALSE]
    ELSE IF FlagSet(table[account_name].flags, UNCOMMITTED_DELETION)
    THEN [table |-> table, ret |-> FALSE]
    ELSE IF g_str_has_prefix_param(key)
    THEN [table |-> [table EXCEPT
                        ![account_name].parameters = Remove(@, key[2]),
                        ![account_name].untyped_parameters = Insert(@, key[2], value),
                        ![account_name].uncommitted_parameters = @ \cup {key[2]}],
          ret |-> TRUE]
    ELSE IF mcd_storage_init_value_for_attribute(key[2]) = ""
    THEN [table |-> table, ret |-> FALSE]
    ELSE SetAttributeVariant(table, account_name, key,
             mcd_keyfile_unescape_value(value,
                                        mcd_storage_init_value_for_attribute(key[2])))

\* a method call to the service: the values of the uncommitted keys, as
\* GVariants or as texts, and the keys that have no value
Request(method, account_name, typed, untyped, unset) ==
    [method |-> method, account |-> account_name, typed |-> typed,
     untyped |-> untyped, unset |-> unset]

UpdateAttributes(account_name, account) ==
    Request("UpdateAttributes", account_name,
            [k \in account.uncommitted_attributes \cap DOMAIN account.attributes |->
                account.attributes[k]],
            EmptyTable,
            account.uncommitted_attributes \ DOMAIN account.attributes)

UpdateParameters(account_name, account) ==
    Request("UpdateParameters", account_name,
            [k \in account.uncommitted_parameters \cap DOMAIN account.parameters |->
                account.parameters[k]],
            [k \in (account.uncommitted_parameters \cap DOMAIN account.untyped_parameters)
                       \ DOMAIN account.parameters |->
                account.untyped_parameters[k]],
            account.uncommitted_parameters
                \ (DOMAIN account.parameters \cup DOMAIN account.untyped_parameters))

\* commit_one that sends nothing for an account marked for deletion
test_dbus_account_plugin_commit_one_skipping_deleted(act, table, account_name) ==
    IF ~act \/ account_name \notin DOMAIN table THEN [ret |-> FALSE, calls |-> <<>>]
    ELSE [ret |-> TRUE, calls |-> <<>>]

\* test_dbus_account_plugin_commit_one: the answer and the calls made
test_dbus_account_plugin_commit_one(act, table, account_name) ==
    IF ~act \/ account_name \notin DOMAIN table THEN [ret |-> FALSE, calls |-> <<>>]
    ELSE IF FlagSet(table[account_name].flags, UNCOMMITTED_DELETION)
    THEN [ret |-> TRUE,
          calls |-> <<Request("DeleteAccount", account_name, EmptyTable, EmptyTable, {})>>]
    ELSE [ret |-> TRUE,
          calls |->
              (IF FlagSet(table[account_name].flags, UNCOMMITTED_CREATION)
               THEN <<Request("CreateAccount", account_name, EmptyTable, EmptyTable, {})>>
               ELSE <<>>)
              \o (IF table[account_name].uncommitted_attributes # {}
                  THEN <<UpdateAttributes(account_name, table[account_name])>>
                  ELSE <<>>)
              \o (IF table[account_name].uncommitted_parameters # {}
                  THEN <<UpdateParameters(account_name, table[account_name])>>
                  ELSE <<>>)]

RECURSIVE CommitEach(_, _, _)
CommitEach(act, table, names) ==
    IF names = <<>> THEN <<>>
    ELSE test_dbus_account_plugin_commit_one(act, table, Head(names)).calls
         \o CommitEach(act, table, Tail(names))

\* commit that does not look at self->active
test_dbus_account_plugin_commit_while_inactive(act, table) ==
    [ret |-> TRUE, calls |-> CommitEach(act, table, IterateSet(DOMAIN table))]

test_dbus_account_plugin_commit(act, table) ==
    IF ~act THEN [ret |-> FALSE, calls |-> <<>>]
    ELSE [ret |-> TRUE, calls |-> CommitEach(act, table, IterateSet(DOMAIN table))]

test_dbus_account_plugin_owns(act, table, account_name) ==
    /\ act
    /\ account_name \in DOMAIN table
    /\ ~FlagSet(table[account_name].flags, UNCOMMITTED_DELETION)

\* the callbacks of the method calls; ok: the service answered without error
delete_account_cb(table, account_name, ok) ==
    IF ok THEN Remove(table, account_name) ELSE table

create_account_cb(table, account_name, ok) ==
    IF ok /\ account_name \in DOMAIN table
    THEN [table EXCEPT ![account_name].flags = BitClear(@, UNCOMMITTED_CREATION)]
    ELSE table

update_attributes_cb(table, account_name, ok) ==
    IF ok /\ account_name \in DOMAIN table
    THEN [table EXCEPT ![account_name].uncommitted_attributes = {}]
    ELSE table

update_parameters_cb(table, account_name, ok) ==
    IF ok /\ account_name \in DOMAIN table
    THEN [table EXCEPT ![account_name].uncommitted_parameters = {}]
    ELSE table

Callback(table, request, ok) ==
    CASE request.method = "DeleteAccount" -> delete_account_cb(table, request.account, ok)
      [] request.method = "CreateAccount" -> create_account_cb(table, request.account, ok)
      [] request.method = "UpdateAttributes" ->
             update_attributes_cb(table, request.account, ok)
      [] request.method = "UpdateParameters" ->
             update_parameters_cb(table, request.account, ok)

\* ---- the plugin as a state machine: the account manager calls it, the
\* ---- service appears, vanishes and answers

NoPluginOp == [op |-> "none", account |-> NullName, key |-> NoKey, ret |-> FALSE,
               name |-> NullName, calls |-> <<>>, ok |-> FALSE]

\* the names the account manager uses with the plugin
PluginNames == {<<"x", 0>>}
PluginAttribute == "MC_ACCOUNTS_KEY_DISPLAY_NAME"
PluginParameter == "account"
PluginKeys == {NoKey, AttrKey(PluginAttribute), ParamKey(PluginParameter)}
\* the accounts GetAccounts may report
ListedAccount ==
    [attributes |-> Insert(EmptyTable, PluginAttribute, sA),
     parameters |-> Insert(EmptyTable, PluginParameter, sA),
     untyped_parameters |-> EmptyTable]
ListReplies ==
    {[error |-> NoOwner, accounts |-> [n \in {} |-> ListedAccount]],
     [error |-> "", accounts |-> [n \in {} |-> ListedAccount]],
     [error |-> "", accounts |-> [n \in PluginNames |-> ListedAccount]]}

\* mcd_storage_load calls list before the account manager makes any other
\* call
PluginList(reply) ==
    /\ ~listed
    /\ listed' = TRUE
    /\ plugin_active' = test_dbus_account_plugin_list(plugin_active, plugin_accounts, reply).active
    /\ plugin_accounts' = test_dbus_account_plugin_list(plugin_active, plugin_accounts, reply).table
    /\ plugin_last' = [NoPluginOp EXCEPT !.op = "list", !.ret = (reply.error # NoOwner)]
    /\ UNCHANGED <<restVars, in_flight, creating, storageVars>>

ServiceAppeared ==
    /\ ~plugin_active
    /\ plugin_active' = TRUE
    /\ plugin_last' = [NoPluginOp EXCEPT !.op = "service_appeared"]
    /\ UNCHANGED <<restVars, listed, plugin_accounts, in_flight, creating, storageVars>>

\* service_vanished_cb; the "deleted" signals go to handlers outside of
\* the storage
ServiceVanished ==
    /\ plugin_active
    /\ plugin_active' = FALSE
    /\ plugin_accounts' = [n \in {} |-> test_dbus_account_new]
    /\ creating' = {}
    /\ plugin_last' = [NoPluginOp EXCEPT !.op = "service_vanished"]
    /\ UNCHANGED <<restVars, listed, in_flight, storageVars>>

\* the name is one the account manager holds no account under: a new one, or
\* that of an account it deleted
PluginCreate(name) ==
    /\ listed
    /\ name \in DOMAIN plugin_accounts
           => FlagSet(plugin_accounts[name].flags, UNCOMMITTED_DELETION)
    /\ plugin_accounts' = dbus_plugin_create(plugin_active, plugin_accounts, name).table
    /\ creating' = IF plugin_active /\ name \notin DOMAIN plugin_accounts
                   THEN creating \cup {name} ELSE creating
    /\ plugin_last' = [NoPluginOp EXCEPT
                          !.op = "create", !.account = name,
                          !.name = dbus_plugin_create(plugin_active, plugin_accounts, name).name,
                          !.ret = (dbus_plugin_create(plugin_active, plugin_accounts, name).name
                                       # NullName)]
    /\ UNCHANGED <<restVars, plugin_active, listed, in_flight, storageVars>>

PluginDelete(account_name, key) ==
    /\ listed
    /\ plugin_accounts' = dbus_plugin_delete(plugin_active, plugin_accounts, account_name, key).table
    /\ creating' = IF key = NoKey /\ dbus_plugin_delete(plugin_active, plugin_accounts,
                                                         account_name, key).ret
                   THEN creating \ {account_name} ELSE creating
    /\ plugin_last' = [NoPluginOp EXCEPT
                          !.op = "delete", !.account = account_name, !.key = key,
                          !.ret = dbus_plugin_delete(plugin_active, plugin_accounts,
                                                     account_name, key).ret]
    /\ UNCHANGED <<restVars, plugin_active, listed, in_flight, storageVars>>

PluginGet(account_name, key) ==
    /\ listed
    /\ accounts' = ApplyWriteBacks(accounts, account_name,
                       test_dbus_account_plugin_get(plugin_active, plugin_accounts,
                                                    account_name, key).calls)
    /\ plugin_last' = [NoPluginOp EXCEPT
                          !.op = "get", !.account = account_name, !.key = key,
                          !.ret = test_dbus_account_plugin_get(plugin_active, plugin_accounts,
                                                               account_name, key).ret]
    /\ UNCHANGED <<restVars, plugin_active, listed, plugin_accounts, in_flight, creating, objects, stores,
                   plugins_cached, regPos, phase, loadAt, dbusObjects, usedNames, last,
                   tasks>>

PluginSet(account_name, key, value) ==
    /\ listed
    /\ plugin_accounts' = test_dbus_account_plugin_set(plugin_active, plugin_accounts,
                                                       account_name, key, value).table
    /\ plugin_last' = [NoPluginOp EXCEPT
                          !.op = "set", !.account = account_name, !.key = key,
                          !.ret = test_dbus_account_plugin_set(plugin_active, plugin_accounts,
                                                               account_name, key, value).ret]
    /\ UNCHANGED <<restVars, plugin_active, listed, in_flight, creating, storageVars>>

\* the method calls of one handler join those awaiting their answer
Send(r, op, account_name) ==
    /\ Len(in_flight) + Len(r.calls) <= MaxInFlight
    /\ in_flight' = in_flight \o r.calls
    /\ plugin_last' = [NoPluginOp EXCEPT !.op = op, !.account = account_name,
                                        !.ret = r.ret, !.calls = r.calls]

PluginCommit ==
    /\ listed
    /\ Send(test_dbus_account_plugin_commit(plugin_active, plugin_accounts), "commit", NullName)
    /\ UNCHANGED <<restVars, plugin_active, listed, plugin_accounts, creating, storageVars>>

PluginCommitOne(account_name) ==
    /\ listed
    /\ Send(test_dbus_account_plugin_commit_one(plugin_active, plugin_accounts, account_name),
            "commit_one", account_name)
    /\ UNCHANGED <<restVars, plugin_active, listed, plugin_accounts, creating, storageVars>>

PluginOwns(account_name) ==
    /\ listed
    /\ plugin_last' = [NoPluginOp EXCEPT
                          !.op = "owns", !.account = account_name,
                          !.ret = test_dbus_account_plugin_owns(plugin_active, plugin_accounts,
                                                                account_name)]
    /\ UNCHANGED <<restVars, plugin_active, listed, plugin_accounts, in_flight, creating, storageVars>>

\* the answer to the i-th pending method call arrives
Reply(i, ok) ==
    /\ i \in 1..Len(in_flight)
    /\ in_flight' = SubSeq(in_flight, 1, i - 1) \o SubSeq(in_flight, i + 1, Len(in_flight))
    /\ plugin_accounts' = Callback(plugin_accounts, in_flight[i], ok)
    /\ creating' = IF ok /\ in_flight[i].method \in {"CreateAccount", "DeleteAccount"}
                   THEN creating \ {in_flight[i].account} ELSE creating
    /\ plugin_last' = [NoPluginOp EXCEPT !.op = "reply", !.account = in_flight[i].account,
                                        !.calls = <<in_flight[i]>>, !.ok = ok]
    /\ UNCHANGED <<restVars, plugin_active, listed, storageVars>>

InitDBusPlugin ==
    /\ objects = <<>>
    /\ stores = <<TestDBusAccountPlugin>>
    /\ plugins_cached = TRUE
    /\ regPos = 1
    /\ phase = "ready"
    /\ loadAt = 0
    /\ accounts = mcd_storage_add_account_from_plugin(
                      [n \in {} |-> mcd_storage_account_new(TestDBusAccountPlugin)],
                      TestDBusAccountPlugin, <<"x", 0>>, <<>>)
    /\ dbusObjects = {}
    /\ usedNames = {<<"x", 0>>}
    /\ last = NoOp
    /\ tasks = [id \in 1..MaxRequests |-> NoTask]
    /\ PluginIdle
    /\ RestIdle

NextDBusPlugin ==
    \/ \E reply \in ListReplies : PluginList(reply)
    \/ ServiceAppeared
    \/ ServiceVanished
    \/ \E name \in PluginNames : PluginCreate(name)
    \/ \E a \in PluginNames, k \in PluginKeys : PluginDelete(a, k)
    \/ \E a \in PluginNames, k \in PluginKeys : PluginGet(a, k)
    \/ \E a \in PluginNames, k \in PluginKeys \ {NoKey} : PluginSet(a, k, <<"a">>)
    \/ PluginCommit
    \/ \E a \in PluginNames : PluginCommitOne(a)
    \/ \E a \in PluginNames : PluginOwns(a)
    \/ \E i \in 1..MaxInFlight, ok \in BOOLEAN : Reply(i, ok)

SpecDBusPlugin == InitDBusPlugin /\ [][NextDBusPlugin]_vars

\* --------------------------------------------------- McAccount client proxy

\* the properties a notification may carry, with the values used here
DisplayNames == {<<"a">>, <<"b">>}
ConnectionStatuses == 0..2
ConnectionStatusReasons == 0..1
\* AccountPropertyChanged and the reply of GetAll: property name -> value
Notifications ==
    {n \in [{"DisplayName", "ConnectionStatus", "ConnectionStatusReason"} ->
                {NULL} \cup {[t |-> "s", v |-> d] : d \in DisplayNames}
                       \cup {[t |-> "u", v |-> c] : c \in ConnectionStatuses}] :
        /\ n["DisplayName"] = NULL \/ n["DisplayName"].t = "s"
        /\ n["ConnectionStatus"] = NULL \/ n["ConnectionStatus"].t = "u"
        /\ n["ConnectionStatusReason"] = NULL
               \/ (n["ConnectionStatusReason"].t = "u"
                     /\ n["ConnectionStatusReason"].v \in ConnectionStatusReasons)}
\* the properties a notification carries
Carried(n) == {name \in DOMAIN n : n[name] # NULL}

\* g_malloc0 (sizeof (McAccountProps)), of the fields that are modelled
NoProps == [allocated |-> FALSE, display_name |-> NullText, connection_status |-> 0,
            connection_status_reason |-> 0, emit_changed |-> FALSE,
            emit_connection_status_changed |-> FALSE]
ZeroProps == [NoProps EXCEPT !.allocated = TRUE]

\* update_property for each property the table carries: the struct after
\* the loop (each name is handled once, the branches write different fields)
UpdateProperties(props, n) ==
    [props EXCEPT
        !.display_name = IF n["DisplayName"] # NULL THEN n["DisplayName"].v ELSE @,
        !.connection_status =
            IF n["ConnectionStatus"] # NULL THEN n["ConnectionStatus"].v ELSE @,
        !.connection_status_reason =
            IF n["ConnectionStatusReason"] # NULL THEN n["ConnectionStatusReason"].v ELSE @,
        !.emit_connection_status_changed =
            IF props.emit_changed
               /\ (n["ConnectionStatus"] # NULL \/ n["ConnectionStatusReason"] # NULL)
            THEN TRUE ELSE @]

\* the signals update_property emits for the table
PropertySignals(props, n) ==
    IF props.emit_changed /\ n["DisplayName"] # NULL
    THEN <<[signal |-> "string-changed", detail |-> "DisplayName",
            args |-> <<n["DisplayName"].v>>]>>
    ELSE <<>>

\* the signal on_account_property_changed emits after the loop
StatusSignal(props) ==
    IF props.emit_connection_status_changed
    THEN <<[signal |-> "connection-status-changed", detail |-> "",
            args |-> <<props.connection_status, props.connection_status_reason>>]>>
    ELSE <<>>

\* create_props: the reply of GetAll arrived
CreateProps(n) ==
    /\ ~proxy_props.allocated
    /\ proxy_props' = [UpdateProperties(ZeroProps, n) EXCEPT !.emit_changed = TRUE]
    /\ proxy_last' = [op |-> "create_props", carried |-> Carried(n),
                      signals |-> PropertySignals(ZeroProps, n)]
    /\ UNCHANGED <<compatVars, handlerVars, storageVars, pluginVars>>

\* on_account_property_changed
OnAccountPropertyChanged(n) ==
    /\ IF ~proxy_props.allocated
       THEN /\ proxy_props' = proxy_props
            /\ proxy_last' = [op |-> "property_changed", carried |-> Carried(n),
                              signals |-> <<>>]
       ELSE /\ proxy_props' = UpdateProperties(proxy_props, n)
            /\ proxy_last' = [op |-> "property_changed", carried |-> Carried(n),
                              signals |-> PropertySignals(proxy_props, n)
                                          \o StatusSignal(UpdateProperties(proxy_props, n))]
    /\ UNCHANGED <<compatVars, handlerVars, storageVars, pluginVars>>

InitProxy ==
    /\ objects = <<>>
    /\ stores = <<>>
    /\ plugins_cached = FALSE
    /\ regPos = 0
    /\ phase = "start"
    /\ loadAt = 0
    /\ accounts = [n \in {} |-> mcd_storage_account_new(DefaultPlugin)]
    /\ dbusObjects = {}
    /\ usedNames = {}
    /\ last = NoOp
    /\ tasks = [id \in 1..MaxRequests |-> NoTask]
    /\ PluginIdle
    /\ RestIdle

NextProxy ==
    \/ \E n \in Notifications : CreateProps(n)
    \/ \E n \in Notifications : OnAccountPropertyChanged(n)

SpecProxy == InitProxy /\ [][NextProxy]_vars

\* ------------------------------------------ account Compat interface

\* what the use of the freed DBusGMethodInvocation can do
FreedContextOutcomes == {"crash", "second_reply", "nothing"}

\* dbus_g_method_return_error (context, error)
ErrorReply == [kind |-> "error", id |-> <<0, 0>>]
\* mc_svc_account_interface_compat_return_from_request_channel (context, id)
IdReply(id) == [kind |-> "id", id |-> id]

\* the replies one invocation sends: dbus_g_method_return_error sends the
\* error and frees the context; the return that follows is made in every
\* case, after an error on the freed context
RequestReplies(error, serial, outcome) ==
    IF error
    THEN IF outcome = "second_reply" THEN <<ErrorReply, IdReply(serial)>>
         ELSE <<ErrorReply>>
    ELSE <<IdReply(serial)>>

\* the record of one invocation: the id taken from the counter and the
\* replies sent; error is what mcd_account_request_channel_nmc4 left in &error
Invocation(method, error, outcome) ==
    [method |-> method, serial |-> last_operation_id, error |-> error,
     replies |-> RequestReplies(error, last_operation_id, outcome)]

\* account_request_channel
account_request_channel(error, outcome) ==
    /\ ~compat_crashed
    /\ Len(invocations) < MaxOperations
    /\ last_operation_id' = MulAdd(last_operation_id, 1, 1)[1]
    /\ invocations' = Append(invocations, Invocation("RequestChannel", error, outcome))
    /\ compat_crashed' = (error /\ outcome = "crash")
    /\ UNCHANGED <<proxyVars, handlerVars, storageVars, pluginVars>>

\* account_request_channel_with_string_handle
account_request_channel_with_string_handle(error, outcome) ==
    /\ ~compat_crashed
    /\ Len(invocations) < MaxOperations
    /\ last_operation_id' = MulAdd(last_operation_id, 1, 1)[1]
    /\ invocations' = Append(invocations,
           Invocation("RequestChannelWithStringHandle", error, outcome))
    /\ compat_crashed' = (error /\ outcome = "crash")
    /\ UNCHANGED <<proxyVars, handlerVars, storageVars, pluginVars>>

InitCompat ==
    /\ objects = <<>>
    /\ stores = <<>>
    /\ plugins_cached = FALSE
    /\ regPos = 0
    /\ phase = "start"
    /\ loadAt = 0
    /\ accounts = [n \in {} |-> mcd_storage_account_new(DefaultPlugin)]
    /\ dbusObjects = {}
    /\ usedNames = {}
    /\ last = NoOp
    /\ tasks = [id \in 1..MaxRequests |-> NoTask]
    /\ PluginIdle
    /\ RestIdle

NextCompat ==
    \/ \E error \in BOOLEAN, outcome \in FreedContextOutcomes :
           account_request_channel(error, outcome)
    \/ \E error \in BOOLEAN, outcome \in FreedContextOutcomes :
           account_request_channel_with_string_handle(error, outcome)

SpecCompat == InitCompat /\ [][NextCompat]_vars

\* ------------------------------------------------ channel handlers

ChannelTypes == {"Text", "StreamedMedia"}
\* the ChannelType lists a file may hold
TypeLists == UNION {[1..n -> ChannelTypes] : n \in 0..MaxTypes}

\* the strings g_key_file_get_string returns for the file-th file
BusNameOf(file) == [file |-> file, key |-> "BusName"]
ObjectPathOf(file) == [file |-> file, key |-> "ObjectPath"]

\* g_free (string), counted
Freed1(heap, string) == [heap EXCEPT ![string] = @ + 1]

\* _mcd_channel_handler_free: the heap after it
mcd_channel_handler_free(heap, handler) ==
    Freed1(Freed1(heap, handler.bus_name), handler.obj_path)

\* g_hash_table_insert (handlers, g_strdup (type), handler): an entry of
\* the same key is replaced and its handler handed to the destroy function
InsertTable(table, type, handler) ==
    [t \in DOMAIN table \cup {type} |-> IF t = type THEN handler ELSE table[t]]
InsertHeap(table, heap, type) ==
    IF type \in DOMAIN table THEN mcd_channel_handler_free(heap, table[type]) ELSE heap

\* _mcd_channel_handler_packer: every handler of the list is given the
\* same bus_name and object_path
RECURSIVE mcd_channel_handler_packer(_, _, _, _, _)
mcd_channel_handler_packer(table, heap, string_list, bus_name, object_path) ==
    IF string_list = <<>> THEN [handlers |-> table, strings |-> heap]
    ELSE mcd_channel_handler_packer(
             InsertTable(table, Head(string_list),
                         [bus_name |-> bus_name, obj_path |-> object_path]),
             InsertHeap(table, heap, Head(string_list)),
             Tail(string_list), bus_name, object_path)

\* the two strings of a file, newly allocated
Allocated(heap, file) ==
    [s \in DOMAIN heap \cup {BusNameOf(file), ObjectPathOf(file)} |->
        IF s \in DOMAIN heap THEN heap[s] ELSE 0]

\* a string was handed to g_free after it had been freed
DoubleFree(before, after) ==
    \E s \in DOMAIN after :
        after[s] >= 2 /\ (s \in DOMAIN before => after[s] > before[s])

\* the phase after frees that took heap before to after: freeing a freed
\* string is undefined, it ends the process or goes unnoticed
PhaseAfter(before, after, reached, abort) ==
    IF DoubleFree(before, after) /\ abort THEN "crashed" ELSE reached

Packed(packed, abort) ==
    /\ handlers' = packed.handlers
    /\ strings' = packed.strings
    /\ chandler_phase' = PhaseAfter(strings, packed.strings, "reading", abort)

\* _mcd_channel_handlers_read_conf_files: one iteration of the loop, for a
\* file that has the suffix, loads and holds the three keys
ReadConfFile(string_list, abort) ==
    /\ chandler_phase = "reading"
    /\ Len(files) < MaxFiles
    /\ files' = Append(files, string_list)
    /\ Packed(mcd_channel_handler_packer(handlers, Allocated(strings, Len(files) + 1),
                                          string_list, BusNameOf(Len(files) + 1),
                                          ObjectPathOf(Len(files) + 1)), abort)
    /\ UNCHANGED <<proxyVars, compatVars, storageVars, pluginVars>>

\* mcd_get_channel_handlers returns: the directory holds no more files
ReturnHandlers ==
    /\ chandler_phase = "reading"
    /\ chandler_phase' = "returned"
    /\ UNCHANGED <<handlers, strings, files>>
    /\ UNCHANGED <<proxyVars, compatVars, storageVars, pluginVars>>

\* the heap after the destroy function ran on every entry
DestroyedHeap(table, heap) ==
    [s \in DOMAIN heap |->
        heap[s] + Cardinality({t \in DOMAIN table : table[t].bus_name = s})
                + Cardinality({t \in DOMAIN table : table[t].obj_path = s})]

\* g_hash_table_destroy (handlers) by the owner of the table
DestroyHandlers(abort) ==
    /\ chandler_phase = "returned"
    /\ handlers' = [t \in {} |-> 0]
    /\ strings' = DestroyedHeap(handlers, strings)
    /\ chandler_phase' =
           PhaseAfter(strings, DestroyedHeap(handlers, strings), "destroyed", abort)
    /\ UNCHANGED files
    /\ UNCHANGED <<proxyVars, compatVars, storageVars, pluginVars>>

InitHandlers ==
    /\ objects = <<>>
    /\ stores = <<>>
    /\ plugins_cached = FALSE
    /\ regPos = 0
    /\ phase = "start"
    /\ loadAt = 0
    /\ accounts = [n \in {} |-> mcd_storage_account_new(DefaultPlugin)]
    /\ dbusObjects = {}
    /\ usedNames = {}
    /\ last = NoOp
    /\ tasks = [id \in 1..MaxRequests |-> NoTask]
    /\ PluginIdle
    /\ RestIdle

NextHandlers ==
    \/ \E string_list \in TypeLists, abort \in BOOLEAN : ReadConfFile(string_list, abort)
    \/ ReturnHandlers
    \/ \E abort \in BOOLEAN : DestroyHandlers(abort)

SpecHandlers == InitHandlers /\ [][NextHandlers]_vars

\* ------------------------------------------------------------------ claims

\* the cache holds a record for the account the last operation addressed
LastAccountCached == last.account \in DOMAIN accounts

\* the calls of the plugins' create among the calls of an operation
CreateCalls(calls) == SelectSeq(calls, LAMBDA c : c.fn = "create")

\* C1: in every reachable cache, no parameter name of any account record is
\* a key of both the typed parameters table and the escaped_parameters table
C1_ParameterInOneTableOnly ==
    \A a \in DOMAIN accounts :
        DOMAIN accounts[a].parameters \cap DOMAIN accounts[a].escaped_parameters = {}

\* a plugin has pushed an escaped parameter with set_value while another
\* record holds a typed parameter
C1_Witness ==
    /\ last.op = "set_value"
    /\ g_str_has_prefix_param(last.key)
    /\ LastAccountCached
    /\ last.key[2] \in DOMAIN accounts[last.account].escaped_parameters
    /\ \E a \in DOMAIN accounts : DOMAIN accounts[a].parameters # {}

\* C2: no step changes the storage field of a record that exists before and
\* after the step; the owner stays from creation to delete_account
C2_OwnerNeverChanges ==
    [][\A a \in DOMAIN accounts \cap DOMAIN accounts' :
          accounts'[a].storage = accounts[a].storage]_vars

\* a load step in which a plugin reported a name another plugin's record has
C2_Witness ==
    /\ last.op = "load"
    /\ \E i \in DOMAIN last.calls :
         /\ last.calls[i].fn = "critical"
         /\ last.calls[i].account \in DOMAIN accounts
         /\ accounts[last.calls[i].account].storage.name # last.calls[i].plugin

\* C3: after mcd_storage_set_attribute (a, k, v) on a cached account with a
\* value v, mcd_storage_get_attribute (a, k) asking for v's type returns v
C3_SetThenGetAttribute ==
    (last.op = "set_attribute" /\ LastAccountCached /\ last.value # NULL)
        => mcd_storage_get_attribute(accounts, last.account, last.key[2], last.value.t)
               = Ok(last.value)

\* an attribute was stored although the plugin refused every call of the write
C3_Witness ==
    /\ last.op = "set_attribute"
    /\ last.ret
    /\ last.value # NULL
    /\ Len(last.calls) = 2
    /\ \A i \in DOMAIN last.calls : ~last.calls[i].ret
    /\ Lookup(accounts[last.account].attributes, last.key[2]) = last.value

\* the outcomes of calling the last set operation once more
Repeated(accts, l) ==
    IF l.op = "set_attribute"
    THEN mcd_storage_set_attribute(accts, l.account, l.key[2], l.value)
    ELSE mcd_storage_set_parameter(accts, l.account, l.key[2], l.value)

\* C4: a set_attribute or set_parameter on a cached account returns TRUE
\* exactly when it changes the cache, and the same call repeated at once
\* returns FALSE, calls no plugin and leaves the cache as it is
C4_SetIsIdempotent ==
    [][(last'.op \in {"set_attribute", "set_parameter"}
        /\ last'.account \in DOMAIN accounts)
       => /\ last'.ret = (accounts' # accounts)
          /\ \A o \in Repeated(accounts', last') :
               ~o.ret /\ o.calls = <<>> /\ o.accts = accounts']_vars

\* a set_parameter replaced the cached value by a typed one
C4_Witness ==
    /\ last.op = "set_parameter"
    /\ last.ret
    /\ last.value # NULL
    /\ LastAccountCached
    /\ Lookup(accounts[last.account].parameters, last.key[2]) = last.value

\* C5: after mcd_storage_set_parameter (a, p, NULL) on a cached account, p is
\* a key of neither parameter table and get_parameter fails with "not stored"
C5_DeletedParameterIsGone ==
    (last.op = "set_parameter" /\ last.value = NULL /\ LastAccountCached)
        => /\ last.key[2] \notin DOMAIN accounts[last.account].parameters
           /\ last.key[2] \notin DOMAIN accounts[last.account].escaped_parameters
           /\ \A type \in {"s", "u", "i", "b"} :
                mcd_storage_get_parameter(accounts, last.account, last.key[2], type)
                    = Failed("not stored")

\* a cached parameter was deleted although the plugin refused the deletion
C5_Witness ==
    /\ last.op = "set_parameter"
    /\ last.value = NULL
    /\ last.ret
    /\ LastAccountCached
    /\ last.calls # <<>>
    /\ ~last.calls[1].ret

\* C6 (as amended): create_account without a provider returns a name, and
\* the name has no record in the cache and no object on the bus when it is
\* chosen; the new record is stored under it
C6_CreatedNameIsFree ==
    [][(last'.op = "create_account" /\ last'.key[1] = NoProvider)
       => /\ last'.name # NullName
          /\ last'.name \notin DOMAIN accounts
          /\ last'.name \notin dbusObjects
          /\ last'.name \in DOMAIN accounts']_vars

\* C6 (as claimed): create_account without a provider returns a name that no
\* load or create_account has ever put in the cache before
C6_CreatedNameNeverUsed ==
    [][(last'.op = "create_account" /\ last'.key[1] = NoProvider)
       => /\ last'.name # NullName
          /\ last'.name \notin usedNames]_vars

\* a creation that had to skip a name in use
C6_Witness ==
    /\ last.op = "create_account"
    /\ last.key[1] = NoProvider
    /\ last.name = <<"x", 1>>
    /\ last.name \in DOMAIN accounts
    /\ <<"x", 0>> \in DOMAIN accounts \cup dbusObjects

\* C7: create_account without a provider calls create of the plugins in
\* descending order of priority (each plugin called has a higher priority
\* than every plugin called later or not called), goes on only after a
\* plugin returned no name, and stops at the first name
C7_CreateInPriorityOrder ==
    (last.op = "create_account" /\ last.key[1] = NoProvider)
        => LET cs == CreateCalls(last.calls)
           IN  /\ Len(cs) \in 1..Len(stores)
               /\ \A i \in 1..Len(cs) :
                    /\ cs[i].plugin = mcp_account_storage_name(stores[i])
                    /\ i < Len(cs) => ~cs[i].ret
                    /\ \A j \in 1..Len(stores) :
                         i < j => mcp_account_storage_priority(stores[i])
                                    > mcp_account_storage_priority(stores[j])
               /\ cs[Len(cs)].ret \/ Len(cs) = Len(stores)
               /\ cs[Len(cs)].ret = (last.name # NullName)

\* two plugins declined before the third created the account
C7_Witness ==
    /\ last.op = "create_account"
    /\ last.key[1] = NoProvider
    /\ Len(CreateCalls(last.calls)) = 3
    /\ last.name \in DOMAIN accounts

\* C8 (as claimed): no load step goes on after a plugin reported a name that
\* another plugin's record already has
C8_DuplicateReportIsFatal ==
    last.op = "load"
        => \A i \in DOMAIN last.calls :
             ~(/\ last.calls[i].fn = "critical"
               /\ last.calls[i].account \in DOMAIN accounts
               /\ accounts[last.calls[i].account].storage.name # last.calls[i].plugin)

\* the plugins registered so far, in the order of add_storage_plugin
RegistrationOrder ==
    IF regPos = 0 THEN <<>> ELSE <<DefaultPlugin>> \o SubSeq(objects, 1, regPos - 1)

Position(list, plugin) == CHOOSE i \in 1..Len(list) : list[i] = plugin

Registered == {RegistrationOrder[i] : i \in 1..Len(RegistrationOrder)}

SortedByPriority ==
    /\ {stores[i] : i \in 1..Len(stores)} = Registered
    /\ Len(stores) = Len(RegistrationOrder)
    /\ \A i, j \in 1..Len(stores) :
         i < j => mcp_account_storage_priority(stores[i])
                    >= mcp_account_storage_priority(stores[j])

\* C9 (as amended): after every registration the registry is sorted by
\* descending priority, and of two plugins of equal priority the one
\* registered later comes first
C9_SortedLaterFirst ==
    /\ SortedByPriority
    /\ \A i, j \in 1..Len(stores) :
         (i < j /\ mcp_account_storage_priority(stores[i])
                     = mcp_account_storage_priority(stores[j]))
             => Position(RegistrationOrder, stores[i]) > Position(RegistrationOrder, stores[j])

\* C9 (as claimed): sorted by descending priority, and of two plugins of
\* equal priority the one registered earlier comes first
C9_SortedEarlierFirst ==
    /\ SortedByPriority
    /\ \A i, j \in 1..Len(stores) :
         (i < j /\ mcp_account_storage_priority(stores[i])
                     = mcp_account_storage_priority(stores[j]))
             => Position(RegistrationOrder, stores[i]) < Position(RegistrationOrder, stores[j])

\* all plugins are registered and two of them have the same priority
C9_Witness ==
    /\ plugins_cached
    /\ Len(stores) >= 3
    /\ \E i, j \in 1..Len(stores) :
         i < j /\ mcp_account_storage_priority(stores[i])
                    = mcp_account_storage_priority(stores[j])

\* C10: delete_account on a cached account calls delete of the owner once,
\* with no key, and removes the record whatever the plugin returns; reads of
\* the account then fail with "account does not exist"
C10_DeleteRemovesRecord ==
    [][(last'.op = "delete_account" /\ last'.account \in DOMAIN accounts)
       => /\ last'.calls = <<Call(accounts[last'.account].storage, "delete",
                                  last'.account, NoKey, last'.ret)>>
          /\ last'.account \notin DOMAIN accounts'
          /\ \A k \in AttributeNames :
               mcd_storage_get_attribute(accounts', last'.account, k, "s")
                   = Failed("account does not exist")
          /\ \A q \in ParameterNames :
               mcd_storage_get_parameter(accounts', last'.account, q, "s")
                   = Failed("account does not exist")]_vars

\* a record was removed although its plugin refused the deletion
C10_Witness ==
    /\ last.op = "delete_account"
    /\ Len(last.calls) = 1
    /\ last.calls[1].fn = "delete"
    /\ ~last.ret
    /\ last.account \notin DOMAIN accounts
    /\ last.account \in usedNames

TypedCall == IF last.op = "set_attribute" THEN "set_attribute" ELSE "set_parameter"

\* C12 (as claimed): a set operation that changed the cache calls only the
\* plugin's delete for a NULL value; for a value it calls the typed
\* set_attribute or set_parameter first and the untyped set exactly when
\* the typed call returned FALSE
C12_DispatchOrder ==
    (last.op \in {"set_attribute", "set_parameter"} /\ last.ret)
        => IF last.value = NULL
           THEN Len(last.calls) = 1 /\ last.calls[1].fn = "delete"
           ELSE /\ Len(last.calls) \in {1, 2}
                /\ last.calls[1].fn = TypedCall
                /\ last.calls[1].ret = (Len(last.calls) = 1)
                /\ Len(last.calls) = 2 => last.calls[2].fn = "set"

\* the same dispatch for the values mcd_keyfile_escape_value has a text for
C12_DispatchOrderOfEscapable ==
    mcd_keyfile_escape_value(last.value) # NullText => C12_DispatchOrder

\* C13: commit of a cached account calls commit of its owner and of no other
\* plugin; commit of NULL calls commit of every plugin of the registry once;
\* the cache and the registry stay as they are
C13_CommitCalls ==
    [][last'.op = "commit"
       => /\ accounts' = accounts
          /\ stores' = stores
          /\ last'.account \in DOMAIN accounts
               => last'.calls = <<Call(accounts[last'.account].storage, "commit",
                                       last'.account, NoKey, last'.calls[1].ret)>>
          /\ last'.account = NullName
               => /\ Len(last'.calls) = Len(stores)
                  /\ \A j \in 1..Len(stores) :
                       last'.calls[j] = Call(stores[j], "commit", NullName, NoKey,
                                             last'.calls[j].ret)]_vars

\* a commit of NULL reached all three plugins, and one of them declined
C13_Witness ==
    /\ last.op = "commit"
    /\ last.account = NullName
    /\ Len(last.calls) = 3
    /\ \E j \in 1..3 : ~last.calls[j].ret
    /\ DOMAIN accounts # {}

\* the value a read of the key of the last set operation returns
ReadBack(type) ==
    IF last.op = "set_attribute"
    THEN mcd_storage_get_attribute(accounts, last.account, last.key[2], type)
    ELSE mcd_storage_get_parameter(accounts, last.account, last.key[2], type)

\* C14: when a plugin call of a set operation returned FALSE the operation
\* still returns TRUE and a read returns the written value, "not stored"
\* after a deletion; a declined commit is the only call made to that plugin
C14_FailuresNotSurfaced ==
    /\ (/\ last.op \in {"set_attribute", "set_parameter"}
        /\ \E i \in DOMAIN last.calls : ~last.calls[i].ret)
           => /\ last.ret
              /\ last.value # NULL => ReadBack(last.value.t) = Ok(last.value)
              /\ last.value = NULL => ReadBack("s") = Failed("not stored")
    /\ (last.op = "commit" /\ \E i \in DOMAIN last.calls : ~last.calls[i].ret)
           => \A i, j \in DOMAIN last.calls :
                last.calls[i].plugin = last.calls[j].plugin => i = j

\* an attribute was replaced although the plugin's set_attribute and set
\* both returned FALSE
C14_Witness ==
    /\ last.op = "set_attribute"
    /\ last.ret
    /\ last.value = s5
    /\ Len(last.calls) = 2
    /\ ~last.calls[1].ret /\ ~last.calls[2].ret
    /\ mcd_storage_get_attribute(accounts, last.account, last.key[2], "s") = Ok(s5)

\* the plugins of the registry that declare the given provider id
PluginsOfProvider(provider) ==
    {j \in 1..Len(stores) : mcp_account_storage_provider(stores[j]) = provider}

\* C15: create_account with a provider calls create on at most one plugin,
\* one that declares this provider id; when that plugin returns no name, or
\* no plugin declares the provider, NULL is returned and the cache is as
\* before, and in the second case no create is called
C15_CreateWithProvider ==
    [][(last'.op = "create_account" /\ last'.key[1] # NoProvider)
       => LET creates == CreateCalls(last'.calls)
          IN  /\ Len(creates) <= 1
              /\ \A i \in 1..Len(creates) :
                    \E j \in PluginsOfProvider(last'.key[1]) :
                        creates[i].plugin = mcp_account_storage_name(stores[j])
              /\ PluginsOfProvider(last'.key[1]) = {}
                    => creates = <<>> /\ last'.name = NullName /\ accounts' = accounts
              /\ (creates # <<>> /\ ~creates[1].ret)
                    => last'.name = NullName /\ accounts' = accounts]_vars

\* the plugin of the asked provider returned no name while two plugins of
\* lower priority were registered, and create_account returned NULL
C15_Witness ==
    /\ last.op = "create_account"
    /\ last.key[1] = ""
    /\ Len(stores) = 3
    /\ CreateCalls(last.calls) = <<Call(TestDBusAccountPlugin, "create", NullName, NoKey, FALSE)>>
    /\ last.name = NullName

\* the plugin whose create produced the name the last create_account returned
CreatingPlugin == CreateCalls(last.calls)[Len(CreateCalls(last.calls))].plugin

\* C16: whenever create_account returns a name, the cache holds a record of
\* that name, owned by the plugin whose create produced the name, with no
\* attributes and no parameters
C16_CreatedRecordOwnedAndEmpty ==
    (last.op = "create_account" /\ last.name # NullName)
        => /\ last.name \in DOMAIN accounts
           /\ mcp_account_storage_name(accounts[last.name].storage) = CreatingPlugin
           /\ accounts[last.name].attributes = EmptyTable
           /\ accounts[last.name].parameters = EmptyTable
           /\ accounts[last.name].escaped_parameters = EmptyTable

\* C17: get_attribute and get_parameter fail with "account does not exist"
\* when the account has no record; get_attribute fails with "not stored"
\* exactly when the record has no such attribute; get_parameter answers from
\* the typed table when it has the key, else from the escaped table, and
\* fails with "not stored" exactly when neither has it
C17_ReadOutcomes ==
    LET a == last.account
        k == last.key[2]
        result == [ok |-> last.ret, value |-> last.value, error |-> last.error]
    IN  /\ (last.op \in {"get_attribute", "get_parameter"} /\ a \notin DOMAIN accounts)
              => result = Failed("account does not exist")
        /\ (last.op = "get_attribute" /\ a \in DOMAIN accounts)
              => IF k \in DOMAIN accounts[a].attributes
                 THEN result = mcd_storage_coerce_variant_to_value(
                                   accounts[a].attributes[k], last.type)
                 ELSE result = Failed("not stored")
        /\ (last.op = "get_parameter" /\ a \in DOMAIN accounts)
              => IF k \in DOMAIN accounts[a].parameters
                 THEN result = mcd_storage_coerce_variant_to_value(
                                   accounts[a].parameters[k], last.type)
                 ELSE IF k \in DOMAIN accounts[a].escaped_parameters
                 THEN /\ result.error # "not stored"
                      /\ result.value = mcd_keyfile_unescape_value(
                                            accounts[a].escaped_parameters[k], last.type)
                 ELSE result = Failed("not stored")

\* a parameter held only in the escaped table was read as a string
C17_Witness ==
    /\ last.op = "get_parameter"
    /\ last.account \in DOMAIN accounts
    /\ last.key[2] \notin DOMAIN accounts[last.account].parameters
    /\ last.key[2] \in DOMAIN accounts[last.account].escaped_parameters
    /\ last.ret
    /\ last.value = sA

ReadOps ==
    {"get_attribute", "get_parameter", "get_boolean", "get_integer", "dup_string",
     "dup_attributes", "dup_accounts"}

\* C18: once the accounts are loaded, a read calls no plugin and leaves the
\* cache, the list of plugins and the plugin objects as they are
C18_ReadsFromCacheAlone ==
    [][last'.op \in ReadOps
       => /\ phase = "ready"
          /\ last'.calls = <<>>
          /\ accounts' = accounts
          /\ stores' = stores
          /\ objects' = objects
          /\ plugins_cached' = plugins_cached]_vars

\* the attribute names of a loaded account were listed
C18_Witness ==
    /\ last.op = "dup_attributes"
    /\ last.account \in DOMAIN accounts
    /\ last.attributes = DOMAIN accounts[last.account].attributes
    /\ last.attributes # {}
    /\ Len(stores) = 2

\* the task of the request was answered "not implemented" or "service unknown"
Degraded(id) ==
    /\ tasks[id].state = "done"
    /\ tasks[id].reply \in {"TP_ERROR_NOT_IMPLEMENTED", "DBUS_GERROR_SERVICE_UNKNOWN"}

\* the raw value of the string parameter "account", else the literal
RawAccount(id) ==
    IF "account" \in DOMAIN tasks[id].parameters
       /\ tasks[id].parameters["account"].t = "s"
    THEN tasks[id].parameters["account"]
    ELSE [t |-> "s", v |-> AccountLiteral]

\* C19: a request answered "not implemented" or "service unknown", and not
\* cancelled before it completed, completes successfully with the raw value
\* of the string parameter "account", or with the literal "account" when
\* the parameters have no string entry of that name
C19_DegradesUnlessCancelled ==
    \A id \in 1..MaxRequests :
        (Degraded(id) /\ ~tasks[id].cancelled) => tasks[id].outcome = Ok(RawAccount(id))

\* C19 as stated: every request answered "not implemented" or "service
\* unknown" completes successfully with the raw "account" value or the
\* literal
C19_DegradesGracefully ==
    \A id \in 1..MaxRequests : Degraded(id) => tasks[id].outcome = Ok(RawAccount(id))

\* one request completed with the raw value a, another with the literal
C19_Witness ==
    /\ Degraded(1) /\ Degraded(2)
    /\ ~tasks[1].cancelled /\ ~tasks[2].cancelled
    /\ tasks[1].outcome = Ok(sA)
    /\ tasks[2].outcome = Ok([t |-> "s", v |-> AccountLiteral])
    /\ tasks[2].parameters = [x \in {"account"} |-> u5]

\* C20: the continuation of a request runs at most once, and only in a step
\* in or after which the request's reply or setup failure has been returned
\* through the task; a request in flight does complete; no step of a
\* request changes the cache or the plugins, cancelled or not
C20_CompletesExactlyOnce ==
    /\ [][\A id \in 1..MaxRequests :
            /\ tasks'[id].completions <= 1
            /\ tasks'[id].completions > tasks[id].completions
                  => /\ tasks[id].state \in {"calling", "returned"}
                     /\ tasks'[id].state = "done"
                     /\ tasks[id].state = "calling" => tasks'[id].reply # "NULL"
                                                       \/ tasks'[id].result.ok
            /\ tasks'[id] # tasks[id]
                  => /\ accounts' = accounts
                     /\ stores' = stores
                     /\ objects' = objects]_vars
    /\ \A id \in 1..MaxRequests :
          (tasks[id].state # "none") ~> (tasks[id].state = "done" /\ tasks[id].completions = 1)

\* both requests were in flight together, the second was answered first,
\* the first was cancelled, and both have completed once
C20_Witness ==
    /\ tasks[1].state = "done" /\ tasks[2].state = "done"
    /\ tasks[1].completions = 1 /\ tasks[2].completions = 1
    /\ tasks[1].cancelled /\ ~tasks[2].cancelled
    /\ tasks[1].reply = "NULL" /\ tasks[2].reply = "TP_ERROR_NETWORK_ERROR"
    /\ DOMAIN accounts # {}

\* the error the request of the task failed with: the error of the reply, or
\* the error of tp_protocol_new when no call was sent; "" when there is none
\* or the error is one identify_account_cb makes an identifier up for
PropagatedError(id) ==
    IF tasks[id].reply = "NULL"
    THEN IF tasks[id].result.ok THEN "" ELSE tasks[id].result.error
    ELSE IF tasks[id].reply \in {"TP_ERROR_NOT_IMPLEMENTED", "DBUS_GERROR_SERVICE_UNKNOWN"}
    THEN ""
    ELSE tasks[id].reply

\* the request has completed after such an error
FailedRequest(id) == tasks[id].state = "done" /\ PropagatedError(id) # ""

\* C21: a request whose call failed with another error than "not
\* implemented" and "service unknown", or whose protocol proxy could not be
\* made, never completes with an identifier; it completes with that error
\* unless it was cancelled, and then with the cancelled error
C21_OtherErrorsPropagateUnlessCancelled ==
    \A id \in 1..MaxRequests :
        FailedRequest(id)
          => tasks[id].outcome = IF tasks[id].cancelled
                                 THEN Failed("G_IO_ERROR_CANCELLED")
                                 ELSE Failed(PropagatedError(id))

\* C21 as stated: such a request completes with that error
C21_OtherErrorsPropagate ==
    \A id \in 1..MaxRequests :
        FailedRequest(id) => tasks[id].outcome = Failed(PropagatedError(id))

\* one request completed with the error of its reply, another with the
\* error of tp_protocol_new
C21_Witness ==
    /\ tasks[1].state = "done" /\ tasks[2].state = "done"
    /\ tasks[1].reply = "TP_ERROR_NETWORK_ERROR"
    /\ tasks[1].outcome = Failed("TP_ERROR_NETWORK_ERROR")
    /\ tasks[2].reply = "NULL"
    /\ tasks[2].outcome = Failed("tp_protocol_new")

\* C22: for every valid value of a type of the schema, the text
\* mcd_keyfile_escape_value gives for it is decoded by
\* mcd_keyfile_unescape_value, into a GValue of the same type, to that value
C22_EscapeDecodeRoundTrip ==
    (last.op = "unescape_value" /\ last.value # NULL)
        => last.ret /\ last.decoded = last.value

\* the string-array of an empty string and a string with the separator
\* went through the codec and came back
C22_Witness ==
    /\ last.op = "unescape_value"
    /\ last.value = [t |-> "as", v |-> <<<<>>, <<"a", ";", "b">>>>]
    /\ last.text = <<";", "a", "\\", ";", "b", ";">>
    /\ last.decoded = last.value

\* the text is a decimal numeral of a uint32
DecimalUInt32(text) == AllDigits(text) /\ NumLessEq(text, G_MAXUINT32_TEXT)

SupportedTypes == {"b", "i", "u", "x", "t", "y", "s", "as", "o", "ao", "(uss)"}

\* the escaped text is not valid for the type, in one of the ways listed
InvalidFor(text, type) ==
    LET list == g_key_file_get_string_list(text)
    IN  \/ type = "u" /\ AllDigits(text) /\ ~NumLessEq(text, G_MAXUINT32_TEXT)
        \/ type = "y" /\ text \in {<<"2", "5", "6">>, <<"-", "1">>}
        \/ type = "(uss)" /\ list # NullList
              /\ (Len(list) # 3 \/ ~DecimalUInt32(list[1]))
        \/ type = "o" /\ g_key_file_get_string(text) # NullText
              /\ ~g_variant_is_object_path(g_key_file_get_string(text))
        \/ type = "ao" /\ list # NullList
              /\ \E i \in 1..Len(list) : ~g_variant_is_object_path(list[i])
        \/ type \notin SupportedTypes

\* C23: decoding a text that is not valid for the target type (a uint32
\* above 2^32-1, a byte outside 0..255, a presence list that has not
\* exactly 3 elements or whose first element is no decimal uint32, an
\* invalid object path alone or in an array, a type that is not supported)
\* fails and returns no value
C23_InvalidTextFails ==
    (last.op = "unescape_value" /\ last.value = NULL
       /\ InvalidFor(last.text, last.type))
        => ~last.ret /\ last.decoded = NULL

\* the types the table declares for the attribute name
DeclaredTypes(attribute) ==
    {known_attributes[i][1] : i \in {j \in DOMAIN known_attributes :
                                        known_attributes[j][2] = attribute}}

\* C24: for an attribute name of the schema, init_value_for_attribute
\* succeeds and initialises the value to the one type the schema declares
\* for the name; for any other name the lookup gives no type and
\* init_value_for_attribute fails
C24_SchemaLookupExact ==
    last.op = "init_value_for_attribute"
        => IF DeclaredTypes(last.key[2]) = {}
           THEN ~last.ret /\ mcd_storage_get_attribute_type(last.key[2]) = ""
           ELSE last.ret /\ DeclaredTypes(last.key[2]) = {last.type}

\* the three tables of the record of an account
AttributesOf(accts, account) == accts[account].attributes
ParametersOf(accts, account) ==
    <<accts[account].parameters, accts[account].escaped_parameters>>

\* the text get_value is to hand out for a flat key: that of the parameter
\* of the stripped name for a key with the prefix, else that of the attribute
TextUnderKey(accts, account, key) ==
    IF key[1] = "param-"
    THEN IF key[2] \in DOMAIN accts[account].parameters
         THEN mcd_keyfile_escape_variant(accts[account].parameters[key[2]])
         ELSE LookupText(accts[account].escaped_parameters, key[2])
    ELSE IF key[2] \in DOMAIN accts[account].attributes
         THEN mcd_keyfile_escape_variant(accts[account].attributes[key[2]])
         ELSE NullText

\* C25: every delete and untyped set call made for a parameter passes
\* "param-" followed by the name, every call made for an attribute passes
\* the bare name; set_value from a plugin with a key that has the prefix
\* writes the parameter tables under the stripped name and leaves the
\* attributes alone, with any other key it writes the attribute and leaves
\* the parameters alone; get_value reads the same way
C25_PrefixAtBoundaries ==
    [][/\ last'.op = "set_parameter"
            => \A i \in 1..Len(last'.calls) :
                 last'.calls[i].fn \in {"delete", "set"}
                     => last'.calls[i].key = <<"param-", last'.key[2]>>
       /\ last'.op = "set_attribute"
            => \A i \in 1..Len(last'.calls) : last'.calls[i].key = <<"", last'.key[2]>>
       /\ (last'.op = "set_value" /\ last'.account \in DOMAIN accounts)
            => IF last'.key[1] = "param-"
               THEN /\ AttributesOf(accounts', last'.account)
                         = AttributesOf(accounts, last'.account)
                    /\ last'.key[2] \notin DOMAIN accounts'[last'.account].parameters
               ELSE ParametersOf(accounts', last'.account)
                        = ParametersOf(accounts, last'.account)
       /\ (last'.op = "get_value" /\ last'.account \in DOMAIN accounts)
            => /\ last'.text = TextUnderKey(accounts, last'.account, last'.key)
               /\ AttributesOf(accounts', last'.account)
                      = AttributesOf(accounts, last'.account)
               /\ ParametersOf(accounts', last'.account)
                      = ParametersOf(accounts, last'.account)]_vars

\* an attribute and a parameter are cached under the same name with
\* different values, and get_value of the key with the prefix gave the text
\* of the parameter
C25_Witness ==
    /\ last.op = "get_value"
    /\ last.key = ParamKey(KeyName)
    /\ last.account \in DOMAIN accounts
    /\ Lookup(accounts[last.account].attributes, KeyName) = sA
    /\ Lookup(accounts[last.account].parameters, KeyName) = bT
    /\ last.text = <<"t", "r", "u", "e">>

\* the reported name got a new record bound to the plugin, and the plugin's
\* get (account, NULL) was called
NewRecordThenGet(call, plugin) ==
    /\ call.fn = "get"
    /\ call.key = NoKey
    /\ call.account \notin DOMAIN accounts
    /\ call.account \in DOMAIN accounts'
    /\ accounts'[call.account].storage = plugin

\* the plugin listed by a load step and the calls of the step are as load
\* is to make them: the plugins after it in the registry, of lower or equal
\* priority, were listed before; the plugin is listed once; every name
\* reported (or every one that had no record, if not cachedToo) got its
\* record and its get
LoadStepInOrder(cachedToo) ==
    (last'.op = "load" /\ loadAt' # loadAt)
        => LET plugin == stores[loadAt]
               cs == last'.calls
           IN  /\ loadAt' = loadAt - 1
               /\ \A j \in (loadAt + 1)..Len(stores) :
                     mcp_account_storage_priority(stores[j])
                         <= mcp_account_storage_priority(plugin)
               /\ cs[1].fn = "list"
               /\ \A i \in 1..Len(cs) : cs[i].plugin = mcp_account_storage_name(plugin)
               /\ \A i \in 2..Len(cs) :
                     /\ cs[i].fn # "list"
                     /\ (cachedToo \/ cs[i].account \notin DOMAIN accounts)
                            => NewRecordThenGet(cs[i], plugin)

\* C26: load visits the registry from the plugin of lowest priority to that
\* of highest priority, a plugin is listed only after the plugins of lower
\* priority were listed and asked for their accounts, each plugin is listed
\* exactly once, and every name a plugin reports gets a new record bound to
\* that plugin, followed by the plugin's get (account, NULL)
C26_LoadOrder == [][LoadStepInOrder(TRUE)]_vars

\* the same for the names that have no record when they are reported
C26_LoadOrderOfNewNames == [][LoadStepInOrder(FALSE)]_vars

\* C27: mcd_storage_dup_attributes returns the names of all the attributes
\* and parameters the cache holds for the account, and no name for an
\* account that has no record
C27_DupAttributesListsAll ==
    last.op = "dup_attributes"
        => last.attributes =
               IF last.account \in DOMAIN accounts
               THEN DOMAIN accounts[last.account].attributes
                    \cup DOMAIN accounts[last.account].parameters
                    \cup DOMAIN accounts[last.account].escaped_parameters
               ELSE {}

\* the result of decoding a text as a type: failure when there is no text
\* or no value, else the value
Decoded(text, type, ret, value) ==
    LET d == IF text = NullText THEN NULL ELSE mcd_keyfile_unescape_value(text, type)
    IN  /\ ret = (d # NULL)
        /\ ret => value = d

\* the result of reading a cached typed value as a type
Coerced(cached, type, ret, value) ==
    IF cached.t = type THEN ret /\ value = cached
    ELSE Decoded(mcd_keyfile_escape_value(cached), type, ret, value)

\* C28: get_attribute and get_parameter return a cached typed value as it
\* is when it has the type asked for; else the result is the text of the
\* cached value decoded as the type asked for, and the read fails exactly
\* when that decoding fails; a parameter held only as escaped text is
\* decoded as the type asked for
C28_CoercionIsRoundTrip ==
    LET a == last.account
        k == last.key[2]
    IN  /\ (last.op = "get_attribute" /\ a \in DOMAIN accounts
              /\ k \in DOMAIN accounts[a].attributes)
              => Coerced(accounts[a].attributes[k], last.type, last.ret, last.value)
        /\ (last.op = "get_parameter" /\ a \in DOMAIN accounts
              /\ k \in DOMAIN accounts[a].parameters)
              => Coerced(accounts[a].parameters[k], last.type, last.ret, last.value)
        /\ (last.op = "get_parameter" /\ a \in DOMAIN accounts
              /\ k \notin DOMAIN accounts[a].parameters
              /\ k \in DOMAIN accounts[a].escaped_parameters)
              => Decoded(accounts[a].escaped_parameters[k], last.type, last.ret, last.value)

\* the cached uint32 2^31 was read as a signed integer of 32 bits, which
\* failed
C28_Witness ==
    /\ last.op = "get_parameter"
    /\ last.account \in DOMAIN accounts
    /\ Lookup(accounts[last.account].parameters, last.key[2])
           = [t |-> "u", v |-> <<32768, 0>>]
    /\ last.type = "i"
    /\ ~last.ret

\* the cache holds a value under the key of the last set operation
KeyCached ==
    /\ last.account \in DOMAIN accounts
    /\ IF last.op = "set_attribute"
       THEN last.key[2] \in DOMAIN accounts[last.account].attributes
       ELSE last.key[2] \in DOMAIN accounts[last.account].parameters
            \cup DOMAIN accounts[last.account].escaped_parameters

DeleteCalled == \E i \in 1..Len(last.calls) : last.calls[i].fn = "delete"

\* C29: a set_attribute or set_parameter that changed the cache calls the
\* owning plugin's delete if and only if the value passed is NULL; the
\* plugin is never told to delete a key the cache now holds
C29_DeleteIffNull ==
    (last.op \in {"set_attribute", "set_parameter"} /\ last.ret)
        => /\ DeleteCalled <=> last.value = NULL
           /\ DeleteCalled => ~KeyCached

\* the same for NULL and the values mcd_keyfile_escape_value has a text for
C29_DeleteIffNullOfEscapable ==
    (last.value = NULL \/ mcd_keyfile_escape_value(last.value) # NullText)
        => C29_DeleteIffNull

\* C30: get_value from a plugin is a pure read: every call leaves the tables
\* of the cache and the reference count of every cached value as they are,
\* so that no cached value is freed and the value can be read again
C30_GetValueIsPureRead ==
    [][(last'.op = "get_value" /\ last'.account \in DOMAIN accounts)
          => /\ AttributesOf(accounts', last'.account)
                    = AttributesOf(accounts, last'.account)
             /\ ParametersOf(accounts', last'.account)
                    = ParametersOf(accounts, last'.account)
             /\ accounts'[last'.account].refs = accounts[last'.account].refs
             /\ Freed(accounts') = {}]_vars

\* the tables alone are left as they are
C30_GetValueLeavesTables ==
    [][(last'.op = "get_value" /\ last'.account \in DOMAIN accounts)
          => /\ AttributesOf(accounts', last'.account)
                    = AttributesOf(accounts, last'.account)
             /\ ParametersOf(accounts', last'.account)
                    = ParametersOf(accounts, last'.account)]_vars

\* the flat keys of an account for which get_value gives a text
KeysWithValue(accts, account) ==
    {k \in {AttrKey(KeyName), ParamKey(KeyName)} :
        TextUnderKey(accts, account, k) # NullText}

\* C31: list_keys of an account gives exactly the flat keys for which
\* get_value of the account gives a text: every attribute name, and "param-"
\* followed by the name of every cached parameter, held as a typed value or
\* as escaped text
C31_ListKeysMatchesGetValue ==
    (last.op = "list_keys" /\ last.account \in DOMAIN accounts)
        => last.keys = KeysWithValue(accounts, last.account)

\* what list_keys gives: the keys of the attribute table and, with the
\* prefix, those of the table of typed parameters
C31_ListKeysListsTypedTables ==
    (last.op = "list_keys" /\ last.account \in DOMAIN accounts)
        => last.keys = {AttrKey(k) : k \in DOMAIN accounts[last.account].attributes}
                       \cup {ParamKey(k) : k \in DOMAIN accounts[last.account].parameters}

\* the type set_value is to decode the text of an attribute as: the one
\* the schema declares, a string for a name the schema does not have
TypeToDecodeAs(attribute) ==
    IF mcd_storage_get_attribute_type(attribute) = "" THEN "s"
    ELSE mcd_storage_get_attribute_type(attribute)

\* what set_value with an attribute key is to do to the record of the
\* account, decoding the text as a given type
SetValueStores(type) ==
    IF last'.account \notin DOMAIN accounts THEN accounts' = accounts
    ELSE /\ DOMAIN accounts' = DOMAIN accounts
         /\ ParametersOf(accounts', last'.account) = ParametersOf(accounts, last'.account)
         /\ \A k \in DOMAIN accounts[last'.account].attributes \ {last'.key[2]} :
                Lookup(accounts'[last'.account].attributes, k)
                    = accounts[last'.account].attributes[k]
         /\ Lookup(accounts'[last'.account].attributes, last'.key[2])
                = IF last'.text = NullText THEN NULL
                  ELSE mcd_keyfile_get_variant(last'.text, type)

\* C32: set_value from a plugin with an attribute key: the text is decoded
\* as the type the schema declares for the name, as a string for a name
\* the schema does not have, and stored; a text that cannot be decoded as
\* that type removes the attribute, whatever was cached; a null value
\* removes the attribute; a call for an account that is not cached changes
\* nothing
C32_SetValueOfAttribute ==
    [][(last'.op = "set_value" /\ last'.key[1] = "")
          => SetValueStores(TypeToDecodeAs(last'.key[2]))]_vars

\* the same with the type mcd_storage_init_value_for_attribute gives
C32_SetValueOfAttributeAsInitialised ==
    [][(last'.op = "set_value" /\ last'.key[1] = "")
          => SetValueStores(IF mcd_storage_init_value_for_attribute(last'.key[2]) = ""
                            THEN "s"
                            ELSE mcd_storage_init_value_for_attribute(last'.key[2]))]_vars

\* the methods of a sequence of method calls
Methods(calls) == [i \in 1..Len(calls) |-> calls[i].method]

\* C33: an account made by create of the test plugin carries the mark of an
\* uncommitted creation until CreateAccount is answered without error, and
\* every commit_one made for it meanwhile, the plugin being active, sends
\* CreateAccount
C33_CreationIsCommitted ==
    [][/\ \A a \in creating' :
            /\ a \in DOMAIN plugin_accounts'
            /\ FlagSet(plugin_accounts'[a].flags, UNCOMMITTED_CREATION)
       /\ (plugin_last'.op = "commit_one" /\ plugin_active
               /\ plugin_last'.account \in creating)
            => \E i \in 1..Len(plugin_last'.calls) :
                   plugin_last'.calls[i].method = "CreateAccount"]_vars

\* the request carries the value the account now has under the key
AttributeCarried(request, account, k) ==
    IF k \in DOMAIN account.attributes
    THEN k \in DOMAIN request.typed /\ request.typed[k] = account.attributes[k]
    ELSE k \in request.unset
ParameterCarried(request, account, k) ==
    IF k \in DOMAIN account.parameters
    THEN k \in DOMAIN request.typed /\ request.typed[k] = account.parameters[k]
    ELSE IF k \in DOMAIN account.untyped_parameters
    THEN k \in DOMAIN request.untyped
         /\ request.untyped[k] = account.untyped_parameters[k]
    ELSE k \in request.unset

\* the step is the answer without error to a call of the method for the
\* account
AnsweredOk(method, a) ==
    /\ plugin_last'.op = "reply"
    /\ plugin_last'.ok
    /\ plugin_last'.account = a
    /\ plugin_last'.calls[1].method = method

\* C34: no change is lost across the commit: while the account is kept, the
\* mark of an uncommitted attribute or parameter is cleared only by the
\* answer without error to an UpdateAttributes or UpdateParameters call
\* that carried the value the key has at that moment, never by the answer
\* to a call made before the last change of the key
C34_NoChangeLost ==
    [][\A a \in DOMAIN plugin_accounts \cap DOMAIN plugin_accounts' :
          ~(plugin_last'.op = "delete" /\ plugin_last'.key = NoKey)
          => /\ \A k \in plugin_accounts[a].uncommitted_attributes
                         \ plugin_accounts'[a].uncommitted_attributes :
                    /\ AnsweredOk("UpdateAttributes", a)
                    /\ AttributeCarried(plugin_last'.calls[1], plugin_accounts'[a], k)
             /\ \A k \in plugin_accounts[a].uncommitted_parameters
                         \ plugin_accounts'[a].uncommitted_parameters :
                    /\ AnsweredOk("UpdateParameters", a)
                    /\ ParameterCarried(plugin_last'.calls[1], plugin_accounts'[a], k)]_vars

\* a mark is cleared only by an answer without error to a call of the
\* matching method
C34_MarksClearedByAnswers ==
    [][\A a \in DOMAIN plugin_accounts \cap DOMAIN plugin_accounts' :
          ~(plugin_last'.op = "delete" /\ plugin_last'.key = NoKey)
          => /\ plugin_accounts[a].uncommitted_attributes
                     \ plugin_accounts'[a].uncommitted_attributes # {}
                   => AnsweredOk("UpdateAttributes", a)
             /\ plugin_accounts[a].uncommitted_parameters
                     \ plugin_accounts'[a].uncommitted_parameters # {}
                   => AnsweredOk("UpdateParameters", a)]_vars

\* the account is in the plugin's table and marked for deletion
PendingDeletion(table, a) ==
    a \in DOMAIN table /\ FlagSet(table[a].flags, UNCOMMITTED_DELETION)

\* what holds of an account pending deletion whichever way it may leave the
\* table: delete with the NULL key makes it pending, get, set and owns
\* answer FALSE, commit_one sends DeleteAccount alone, only create makes it
\* an account again
PendingDeletionKept ==
    /\ (plugin_last'.op = "delete" /\ plugin_last'.key = NoKey /\ plugin_last'.ret)
         => PendingDeletion(plugin_accounts', plugin_last'.account)
    /\ (plugin_last'.op \in {"get", "set", "owns"}
            /\ PendingDeletion(plugin_accounts, plugin_last'.account))
         => ~plugin_last'.ret
    /\ (plugin_last'.op = "commit_one" /\ plugin_active
            /\ PendingDeletion(plugin_accounts, plugin_last'.account))
         => Methods(plugin_last'.calls) = <<"DeleteAccount">>
    /\ \A a \in PluginNames :
           (PendingDeletion(plugin_accounts, a) /\ a \in DOMAIN plugin_accounts'
                /\ ~PendingDeletion(plugin_accounts', a))
               => plugin_last'.op = "create" /\ plugin_last'.name = a

\* C35 as stated: an account pending deletion leaves the plugin's table
\* only when DeleteAccount is answered without error
C35_PendingUntilDeleteAnswered ==
    [][/\ PendingDeletionKept
       /\ \A a \in PluginNames :
              (PendingDeletion(plugin_accounts, a) /\ a \notin DOMAIN plugin_accounts')
                  => AnsweredOk("DeleteAccount", a)]_vars

\* C35: once delete with the NULL key was accepted the account is pending
\* deletion until create makes it again: get, set and owns answer FALSE,
\* commit_one sends DeleteAccount and nothing else, and the account leaves
\* the plugin's table only when DeleteAccount is answered without error or
\* when the service vanishes; after an answer with an error it is still
\* pending deletion
C35_PendingUntilAnsweredOrVanished ==
    [][/\ PendingDeletionKept
       /\ \A a \in PluginNames :
              (PendingDeletion(plugin_accounts, a) /\ a \notin DOMAIN plugin_accounts')
                  => \/ AnsweredOk("DeleteAccount", a)
                     \/ plugin_last'.op = "service_vanished"]_vars

\* DeleteAccount was answered with an error and the account is still
\* pending deletion
C35_Witness ==
    /\ plugin_last.op = "reply"
    /\ ~plugin_last.ok
    /\ plugin_last.calls[1].method = "DeleteAccount"
    /\ PendingDeletion(plugin_accounts, plugin_last.account)

\* C36: while the test plugin is inactive, create, delete, get, set, commit
\* and commit_one answer FALSE (create: no name), send no method call to
\* the service and leave the plugin's accounts, with their values and
\* uncommitted sets, and the storage's cache as they are
C36_InactiveDeclines ==
    [][(~plugin_active
          /\ plugin_last'.op \in {"create", "delete", "get", "set", "commit", "commit_one"})
         => /\ ~plugin_last'.ret
            /\ plugin_last'.name = NullName
            /\ plugin_last'.calls = <<>>
            /\ in_flight' = in_flight
            /\ plugin_accounts' = plugin_accounts
            /\ ~plugin_active'
            /\ accounts' = accounts]_vars

\* the service vanished with method calls unanswered, and commit was
\* declined
C36_Witness ==
    /\ ~plugin_active
    /\ in_flight # <<>>
    /\ plugin_last.op = "commit"
    /\ ~plugin_last.ret

\* the last callback emitted connection-status-changed
StatusChangedEmitted ==
    \E i \in 1..Len(proxy_last.signals) :
        proxy_last.signals[i].signal = "connection-status-changed"

\* C37: the McAccount proxy emits connection-status-changed after a
\* property-changed notification only if that notification itself carried
\* ConnectionStatus or ConnectionStatusReason, and a notification that
\* arrives before the initial property load emits no signal at all.
C37_StatusSignalOnlyWhenCarried ==
    /\ (proxy_last.op = "property_changed" /\ StatusChangedEmitted) =>
           proxy_last.carried \cap {"ConnectionStatus", "ConnectionStatusReason"} # {}
    /\ ~proxy_props.allocated => proxy_last.signals = <<>>

\* C37, the part that holds: nothing is emitted before the initial load
\* has completed, nor by the load itself, and connection-status-changed is
\* emitted exactly by the notifications that find the flag set.
C37_SilentUntilLoaded ==
    /\ ~proxy_props.allocated => proxy_last.signals = <<>>
    /\ proxy_last.op = "create_props" => proxy_last.signals = <<>>
    /\ (proxy_last.op = "property_changed" /\ proxy_props.allocated) =>
           (StatusChangedEmitted <=> proxy_props.emit_connection_status_changed)

\* C38: each RequestChannel and RequestChannelWithStringHandle invocation
\* is answered exactly once, with an error reply when
\* mcd_account_request_channel_nmc4 set an error and with the operation id
\* otherwise, never with both; the ids come from one counter shared by the
\* two methods, so successive requests receive distinct ids.
C38_AnsweredExactlyOnce ==
    /\ ~compat_crashed
    /\ \A i \in 1..Len(invocations) :
           /\ Len(invocations[i].replies) = 1
           /\ invocations[i].replies[1] =
                  IF invocations[i].error THEN ErrorReply
                  ELSE IdReply(invocations[i].serial)
    /\ \A i, j \in 1..Len(invocations) :
           i # j => invocations[i].serial # invocations[j].serial

\* C38, the part that holds: the two methods draw their ids from the one
\* counter, the i-th invocation of a run gets the id i, an invocation
\* without error is answered once with its id, and the first answer to an
\* invocation with an error is the error.
C38_IdsFromOneCounter ==
    /\ last_operation_id = <<0, Len(invocations) + 1>>
    /\ \A i \in 1..Len(invocations) :
           /\ invocations[i].serial = <<0, i>>
           /\ ~invocations[i].error => invocations[i].replies = <<IdReply(<<0, i>>)>>
           /\ invocations[i].error => invocations[i].replies[1] = ErrorReply

\* the entries of the table that point to a string
Owners(string) ==
    {t \in DOMAIN handlers :
        handlers[t].bus_name = string \/ handlers[t].obj_path = string}

\* C39: every bus-name and object-path string read from a .chandler file is
\* owned by exactly one entry of the table, so that replacing an entry or
\* destroying the table frees each such string exactly once, also when one
\* file lists two or more channel types, or none.
C39_EachStringOwnedOnce ==
    /\ chandler_phase # "crashed"
    /\ \A s \in DOMAIN strings :
           /\ strings[s] <= 1
           /\ chandler_phase \in {"reading", "returned"} =>
                  Cardinality(Owners(s)) = 1 - strings[s]
           /\ chandler_phase = "destroyed" => strings[s] = 1

\* C39, what the code does instead: the strings of a file are shared by
\* one handler per channel type the file lists, and each of these handlers
\* frees them when it is replaced or destroyed.
C39_FreedOncePerListedType ==
    /\ DOMAIN strings =
           {BusNameOf(k) : k \in 1..Len(files)} \cup {ObjectPathOf(k) : k \in 1..Len(files)}
    /\ \A s \in DOMAIN strings :
           chandler_phase # "crashed" =>
               strings[s] + Cardinality(Owners(s)) = Len(files[s.file])
    /\ \A t \in DOMAIN handlers :
           handlers[t].bus_name.file = handlers[t].obj_path.file

====
